---- MODULE Spec2Model ----
(***************************************************************************)
(* The asynchronous transfer engine of the usbfs back end: one device      *)
(* handle, its pending-URB map and reaper goroutine (device.go), the       *)
(* Submit / Wait methods of AsyncTransfer and IsochronousTransfer, Close,  *)
(* and the kernel's URB queue behind the file descriptor.                  *)
(*                                                                         *)
(* A second part models Device.Open and the synchronous methods of         *)
(* DeviceHandle (Close, the interface and configuration calls, the         *)
(* control, bulk and interrupt transfers of transfer.go), a third          *)
(* AsyncTransfer.Cancel and WaitWithTimeout on top of the first.           *)
(*                                                                         *)
(* Three further parts follow the data rather than the locks: the fields   *)
(* of one transfer and its URB block through Submit and completion,        *)
(* ConfigDescriptor.Unmarshal on a bounded set of inputs, and              *)
(* IsValidDevicePath on a bounded set of paths. The last part is the       *)
(* earlier IsochronousTransfer of isochronous.go, whose Submit starts a     *)
(* reaping goroutine of its own for every transfer.                        *)
(*                                                                         *)
(* Every statement of the Go code that reads or writes shared state        *)
(* without holding a lock is a step of its own; a critical section that    *)
(* touches only state guarded by the lock it holds is one step.            *)
(***************************************************************************)
EXTENDS Integers, FiniteSets, Sequences, TLC

\* ---------------------------------------------------------------- bounds
NumTransfers == 2      \* transfer objects created on the handle
NumUsers == 2          \* application goroutines calling into the library
MaxCalls == 2          \* Submit calls made in one run
MaxReapers == 3        \* reaper goroutines that can be spawned in one run

NumHandles == 3        \* handles one Device hands out in one run
NumGoroutines == 2     \* goroutines calling Open and the handle's methods
NumIfaces == 1         \* interfaces of the active configuration
OpsHandles == 1        \* handles opened in a run that uses every method

NumPackets == 2        \* packets of an isochronous transfer
PacketSize == 2        \* bytes each packet of an isochronous transfer carries
BufferSize == 2        \* buffer of a bulk, interrupt or control transfer
MaxSubmits == 2        \* accepted submissions of the one transfer in a run

Transfers == 1..NumTransfers
Users == 1..NumUsers
CallIds == 1..MaxCalls
Reapers == 1..MaxReapers
NoCall == 0
Handles == 1..NumHandles
Goroutines == 1..NumGoroutines
Ifaces == 1..NumIfaces
NoHandle == 0

\* error values passed to completion callbacks
ErrNil == "nil"
ErrDeviceNotFound == "ErrDeviceNotFound"
ErrReaperFailed == "reaper failed"
ErrURBStatus == "URB completed with status"

VARIABLES
    \* DeviceHandle
    closed,        \* h.closed
    fdOpen,        \* the kernel file descriptor h.fd is open
    readers,       \* user goroutines holding h.mu in read mode
    writers,       \* user goroutines blocked in h.mu.Lock()
    reapMap,       \* h.reapMap: URB key (its transfer) -> callback (its Submit call), NoCall = absent
    reapMapNil,    \* h.reapMap == nil
    reaping,       \* h.reaping
    reapMutex,     \* h.reapMutex: 0 = free, r = held by reaper r
    \* transfers
    submitted,     \* t.submitted
    reaped,        \* t.reaped
    reapErr,       \* t.reapErr
    condL,         \* t.reapCond.L is held (by a running callback)
    \* kernel
    connected,     \* the device is still plugged in
    kernel,        \* Submit calls whose URB the kernel has accepted and not yet handed to a reap
    \* user goroutines
    upc, ut, ucall,
    \* reaper goroutines
    rpc,           \* position in reapLoop
    rerrno,        \* local errno of the last REAPURB
    rkey,          \* local reapedURB (the transfer whose URB was reaped)
    rerr,          \* the error handed to the callback being run
    rcb,           \* the callback being run (its Submit call)
    rtodo,         \* keys still to visit in `for _, callback := range h.reapMap`
    panicked,      \* the process aborted: "no", or the panic message
    \* history
    nextCall,      \* next Submit call id
    callT,         \* transfer of each Submit call
    callState,     \* "unused", "running", "ok", or the reason it failed
    delivered,     \* how many times the callback of each call was invoked
    reapErrCall,   \* the call whose callback wrote t.reapErr
    lastOk,        \* most recent Submit call on t that returned nil
    pendingAtClose, \* the calls submitted and not completed when Close closed the descriptor
    timedOut       \* the calls for which WaitWithTimeout has returned ErrTimeout

asyncVars == <<closed, fdOpen, readers, writers, reapMap, reapMapNil, reaping, reapMutex,
          submitted, reaped, reapErr, condL, connected, kernel, upc, ut, ucall,
          rpc, rerrno, rkey, rerr, rcb, rtodo, panicked,
          nextCall, callT, callState, delivered, reapErrCall, lastOk,
          pendingAtClose, timedOut>>

handleVars == <<closed, fdOpen, readers, writers>>
mapVars == <<reapMap, reapMapNil, reaping, reapMutex>>
transferVars == <<submitted, reaped, reapErr, condL>>
kernelVars == <<connected, kernel>>
userVars == <<upc, ut, ucall>>
reaperVars == <<rpc, rerrno, rkey, rerr, rcb, rtodo>>
callVars == <<nextCall, callT, callState>>
deliveryVars == <<delivered, reapErrCall>>

\* ------------------------------------------------------------------------
\* A Device, the DeviceHandles it hands out and the kernel's view of its
\* interfaces, for the synchronous methods of DeviceHandle
VARIABLES
    dHandle,       \* d.handle (NoHandle = nil)
    dMu,           \* d.mu: NoGoroutine = free, g = held by g
    nextHandle,    \* the next handle Open creates
    hClosed,       \* h.closed
    hFdOpen,       \* the descriptor h.fd is open in the kernel
    hClaimed,      \* h.claimedIfaces
    hReaders,      \* goroutines holding h.mu in read mode
    hWriter,       \* goroutine holding h.mu in write mode
    hWaiting,      \* goroutines blocked in h.mu.Lock()
    closeCalls,    \* history: Close calls that have passed h.mu.Lock()
    kConnected,    \* the device is plugged in
    kOwner,        \* per interface: NoHandle (free), KernelDriver, or the handle whose descriptor claimed it
    gpc,           \* position of each goroutine
    gcall,         \* the call each goroutine is in (a CallRecord)
    last           \* history: the call that returned most recently (a CallRecord)

opsVars == <<dHandle, dMu, nextHandle, hClosed, hFdOpen, hClaimed, hReaders, hWriter,
             hWaiting, closeCalls, kConnected, kOwner, gpc, gcall, last>>

\* ------------------------------------------------------------------------
\* One transfer object and its URB block, for the data the library moves
\* between the two: the per-packet slots of an isochronous URB, the URB's
\* actual_length and status, and the fields the getters return
VARIABLES
    tKind,         \* the constructor that made the transfer ("none" before construction)
    tPackets,      \* t.packets (IsochronousTransfer) / t.isoPackets (AsyncTransfer)
    urbSlots,      \* the packet-descriptor slots behind the URB header
    urb,           \* t.urb.Status and t.urb.ActualLength
    tActualLength, \* t.actualLength (AsyncTransfer)
    tSubmitted,    \* t.submitted
    tReaped,       \* t.reaped
    tReapErr,      \* t.reapErr
    urbAt,         \* who has the URB: "user", "kernel" (queued) or "done" (completed, not yet reaped)
    handed,        \* history: the submit count, the slots as the kernel received them at the
                   \* latest SUBMITURB and at the first one, and what the kernel wrote
    tStatus,       \* t.status (the AsyncTransfer of async.go)
    gsPc           \* the goroutine calling GetStatus: "idle", "waiting", or the value returned

dataVars == <<tKind, tPackets, urbSlots, urb, tActualLength, tSubmitted, tReaped,
              tReapErr, urbAt, handed, tStatus, gsPc>>

\* ------------------------------------------------------------------------
\* ConfigDescriptor.Unmarshal at work on one input: the locals of the function
\* and the fields of c
VARIABLES
    data,             \* the input byte sequence (data[i] of the code is data[i + 1] here)
    ppc,              \* "start", "loop" (at the loop test), "returned" or "panic"
    pos,              \* pos
    cHeader,          \* c.Length .. c.MaxPower
    interfaceMap,     \* interfaceMap: interface number -> its alternate settings so far
    currentInterface, \* <<>> for nil, else <<the InterfaceAltSetting>>
    currentEndpoints, \* currentEndpoints
    extraBuffer,      \* extraBuffer
    cExtra,           \* c.Extra
    cInterfaces,      \* c.Interfaces
    perr,             \* the error Unmarshal returned
    processed,        \* history: the records the switch has dispatched on
    stopped           \* history: the offset at which the loop was left, and why

parseVars == <<data, ppc, pos, cHeader, interfaceMap, currentInterface, currentEndpoints,
               extraBuffer, cExtra, cInterfaces, perr, processed, stopped>>

\* ------------------------------------------------------------------------
\* IsValidDevicePath applied to one path
VARIABLES
    path,          \* the argument, a sequence of characters
    validRegexp,   \* what the IsValidDevicePath that uses devicePathRegex returned
    validAtoi      \* what the IsValidDevicePath that uses strconv.Atoi returned

pathVars == <<path, validRegexp, validAtoi>>

\* ------------------------------------------------------------------------
\* The IsochronousTransfer that reaps for itself (isochronous.go, first
\* version): the transfers of one handle, their URBs in the kernel and the
\* reapURB goroutine of each
VARIABLES
    lSubmitted,    \* t.submitted
    lUrb,          \* t's URB: "user", "queued" (in flight), "completed" (waiting to be reaped), "reaped"
    lPc,           \* t's reapURB goroutine: "none", "reap", "sleep", "process" or "done"
    lStatus,       \* t.urb.Status as reapURB left it: "0" or the errno it negated
    lCompleted,    \* the channel t.completed holds a value
    lGot           \* history: the transfer whose reapURB was handed t's completion (0: nobody yet)

legacyVars == <<lSubmitted, lUrb, lPc, lStatus, lCompleted, lGot>>

\* ------------------------------------------------------------------------
\* ResetDevice on the handle of the first part
VARIABLES
    orphans,        \* Submit calls whose URB is queued on a descriptor that ResetDevice has
                    \* closed while a reaper was blocked in REAPURB on it
    pendingAtReset  \* history: the calls submitted and not completed when a ResetDevice succeeded

resetVars == <<orphans, pendingAtReset>>

\* ------------------------------------------------------------------------
\* One call of InterruptTransferWithRetry
VARIABLES
    maxRetries,    \* the argument maxRetries
    rtPc,          \* "test" (at the loop test), "bulk", "halt", or "returned"
    attempt,       \* attempt
    lastErr,       \* lastErr
    attempts,      \* history: what each h.BulkTransfer of the call returned
    retErr         \* the error the call returned ("none" before it returns)

retryVars == <<maxRetries, rtPc, attempt, lastErr, attempts, retErr>>

extVars == <<dataVars, parseVars, pathVars, legacyVars, resetVars, retryVars>>

vars == <<asyncVars, opsVars, extVars>>

deviceVars == <<dHandle, dMu, nextHandle>>
lockVars == <<hReaders, hWriter, hWaiting>>
stateVars == <<hClosed, hFdOpen, hClaimed, closeCalls>>
kVars == <<kConnected, kOwner>>

NoGoroutine == 0
NoIface == 0
KernelDriver == NumHandles + 1

\* what is remembered of a call: the method, its handle and interface, whether
\* Close had returned on the handle when the call began (late), whether the
\* interface was in h.claimedIfaces then (held), which Close call on the handle
\* it is (nth), the interfaces its loop has visited (done), the kernel calls it
\* issued (calls), the turn of the retry loop (attempt), whether one of them named a
\* closed descriptor (badfd), the errno of its last kernel call (errno) and of
\* the transfer ioctl of the current attempt (xerrno), and its result
NoCallRecord ==
    [op |-> "none", h |-> NoHandle, i |-> NoIface, late |-> FALSE, held |-> FALSE,
     nth |-> 0, done |-> {}, attempt |-> 0, calls |-> {}, badfd |-> FALSE,
     errno |-> "0", xerrno |-> "0", res |-> "nil"]

InitOps ==
    /\ dHandle = NoHandle /\ dMu = NoGoroutine /\ nextHandle = 1
    /\ hClosed = [h \in Handles |-> FALSE]
    /\ hFdOpen = [h \in Handles |-> FALSE]
    /\ hClaimed = [h \in Handles |-> {}]
    /\ hReaders = [h \in Handles |-> {}]
    /\ hWriter = [h \in Handles |-> NoGoroutine]
    /\ hWaiting = [h \in Handles |-> {}]
    /\ closeCalls = [h \in Handles |-> 0]
    /\ kConnected = TRUE
    /\ kOwner = [i \in Ifaces |-> NoHandle]
    /\ gpc = [g \in Goroutines |-> "idle"]
    /\ gcall = [g \in Goroutines |-> NoCallRecord]
    /\ last = NoCallRecord

Packets == 1..NumPackets

\* a packet descriptor: IsoPacketDescriptor / IsoPacket
Packet(len, actual, status) == [Length |-> len, ActualLength |-> actual, Status |-> status]

ZeroPackets == [i \in Packets |-> Packet(0, 0, "0")]

\* no transfer object yet; memory that make() hands out is zeroed
InitData ==
    /\ tKind = "none"
    /\ tPackets = ZeroPackets /\ urbSlots = ZeroPackets
    /\ urb = [Status |-> "0", ActualLength |-> 0]
    /\ tActualLength = 0
    /\ tSubmitted = FALSE /\ tReaped = FALSE /\ tReapErr = ErrNil
    /\ urbAt = "user"
    /\ handed = [n |-> 0, slots |-> ZeroPackets, first |-> ZeroPackets, actual |-> 0]
    /\ tStatus = "none"
    /\ gsPc = "idle"

NoHeader == [Length |-> 0, DescriptorType |-> 0, TotalLength |-> 0, NumInterfaces |-> 0,
             ConfigurationValue |-> 0, ConfigurationIndex |-> 0, Attributes |-> 0,
             MaxPower |-> 0]

\* Unmarshal is about to be called on a zero ConfigDescriptor with input d
ParserStart(d) ==
    /\ data = d /\ ppc = "start" /\ pos = 0
    /\ cHeader = NoHeader
    /\ interfaceMap = <<>> /\ currentInterface = <<>> /\ currentEndpoints = <<>>
    /\ extraBuffer = <<>> /\ cExtra = <<>> /\ cInterfaces = <<>>
    /\ perr = ErrNil
    /\ processed = <<>>
    /\ stopped = [at |-> 0, why |-> "no"]

\* IsValidDevicePath is about to be called on p
PathStart(p) == path = p /\ validRegexp = "none" /\ validAtoi = "none"

\* Open / newAsyncTransfer / NewIsochronousTransfer: a fresh handle and fresh transfers
InitAsync ==
    /\ closed = FALSE /\ fdOpen = TRUE
    /\ readers = {} /\ writers = {}
    /\ reapMap = [t \in Transfers |-> NoCall] /\ reapMapNil = FALSE
    /\ reaping = FALSE /\ reapMutex = 0
    /\ submitted = [t \in Transfers |-> FALSE]
    /\ reaped = [t \in Transfers |-> FALSE]
    /\ reapErr = [t \in Transfers |-> ErrNil]
    /\ condL = [t \in Transfers |-> FALSE]
    /\ connected = TRUE /\ kernel = {}
    /\ upc = [u \in Users |-> "idle"]
    /\ ut = [u \in Users |-> 0]
    /\ ucall = [u \in Users |-> NoCall]
    /\ rpc = [r \in Reapers |-> "idle"]
    /\ rerrno = [r \in Reapers |-> "0"]
    /\ rkey = [r \in Reapers |-> 0]
    /\ rerr = [r \in Reapers |-> ErrNil]
    /\ rcb = [r \in Reapers |-> NoCall]
    /\ rtodo = [r \in Reapers |-> {}]
    /\ panicked = "no"
    /\ nextCall = 1
    /\ callT = [c \in CallIds |-> 0]
    /\ callState = [c \in CallIds |-> "unused"]
    /\ delivered = [c \in CallIds |-> 0]
    /\ reapErrCall = [t \in Transfers |-> NoCall]
    /\ lastOk = [t \in Transfers |-> NoCall]
    /\ pendingAtClose = {}
    /\ timedOut = {}

\* NewIsochronousTransfer (first version) for each transfer: nothing submitted
InitLegacy ==
    /\ lSubmitted = [t \in Transfers |-> FALSE]
    /\ lUrb = [t \in Transfers |-> "user"]
    /\ lPc = [t \in Transfers |-> "none"]
    /\ lStatus = [t \in Transfers |-> "0"]
    /\ lCompleted = [t \in Transfers |-> FALSE]
    /\ lGot = [t \in Transfers |-> 0]

InitReset == orphans = {} /\ pendingAtReset = {}

\* InterruptTransferWithRetry(endpoint, data, timeout, m) is entered:
\* `var lastErr error`, `attempt := 0`
RetryStart(m) ==
    /\ maxRetries = m /\ rtPc = "test" /\ attempt = 0
    /\ lastErr = ErrNil /\ attempts = <<>> /\ retErr = "none"

Init ==
    InitAsync /\ InitOps /\ InitData /\ ParserStart(<<>>) /\ PathStart(<<>>) /\ InitLegacy
    /\ InitReset /\ RetryStart(1)

Alive == panicked = "no"

\* a user goroutine returns from a library call
Return(u) ==
    /\ upc' = [upc EXCEPT ![u] = "idle"]
    /\ ut' = [ut EXCEPT ![u] = 0]
    /\ ucall' = [ucall EXCEPT ![u] = NoCall]

\* ------------------------------------------------------------------------
\* AsyncTransfer.Submit / IsochronousTransfer.Submit (the two bodies are the
\* same statement for statement in what they do to the handle and the flags)

\* `if t.submitted { return error }`, read without any lock
SubmitBegin(u, t) ==
    /\ Alive /\ upc[u] = "idle" /\ nextCall <= MaxCalls
    /\ nextCall' = nextCall + 1
    /\ callT' = [callT EXCEPT ![nextCall] = t]
    /\ IF submitted[t]
         THEN /\ callState' = [callState EXCEPT ![nextCall] = "already submitted"]
              /\ UNCHANGED userVars
         ELSE /\ callState' = [callState EXCEPT ![nextCall] = "running"]
              /\ upc' = [upc EXCEPT ![u] = "s_lock"]
              /\ ut' = [ut EXCEPT ![u] = t]
              /\ ucall' = [ucall EXCEPT ![u] = nextCall]
    /\ UNCHANGED <<handleVars, mapVars, transferVars, kernelVars, reaperVars, panicked,
                   deliveryVars, lastOk, pendingAtClose,
                   timedOut, opsVars, extVars>>

\* `t.handle.mu.RLock(); if t.handle.closed { return ErrDeviceNotFound }`
SubmitLock(u) ==
    /\ Alive /\ upc[u] = "s_lock" /\ writers = {}
    /\ IF closed
         THEN /\ callState' = [callState EXCEPT ![ucall[u]] = "closed"]
              /\ Return(u)
              /\ UNCHANGED readers
         ELSE /\ readers' = readers \cup {u}
              /\ upc' = [upc EXCEPT ![u] = "s_ioctl"]
              /\ UNCHANGED <<ut, ucall, callState>>
    /\ UNCHANGED <<closed, fdOpen, writers, mapVars, transferVars, kernelVars, reaperVars,
                   panicked, nextCall, callT, deliveryVars, lastOk, pendingAtClose,
                   timedOut, opsVars, extVars>>

\* as SubmitIoctlFailed, had the callback been registered before the ioctl and
\* not been taken out again on failure
SubmitIoctlFailedKeepsEntry(u) ==
    /\ callState' = [callState EXCEPT ![ucall[u]] = "ioctl failed"]
    /\ readers' = readers \ {u}
    /\ Return(u)
    /\ reapMap' = [reapMap EXCEPT ![ut[u]] = ucall[u]]
    /\ UNCHANGED kernel

\* the submit ioctl was refused: `return fmt.Errorf("failed to submit URB")`
\* (with the deferred RUnlock)
SubmitIoctlFailed(u) ==
    /\ callState' = [callState EXCEPT ![ucall[u]] = "ioctl failed"]
    /\ readers' = readers \ {u}
    /\ Return(u)
    /\ UNCHANGED <<kernel, reapMap>>

\* The SUBMITURB ioctl. The kernel refuses it when the device is gone and may
\* refuse it for its own reasons (ENOMEM, EINVAL, ...); otherwise the URB is
\* in flight from here on.
SubmitIoctl(u) ==
    /\ Alive /\ upc[u] = "s_ioctl"
    /\ \/ /\ connected
          /\ kernel' = kernel \cup {ucall[u]}
          /\ upc' = [upc EXCEPT ![u] = "s_sub"]
          /\ UNCHANGED <<ut, ucall, callState, readers, reapMap>>
       \/ SubmitIoctlFailed(u)
    /\ UNCHANGED <<closed, fdOpen, writers, reapMapNil, reaping, reapMutex, transferVars,
                   connected, reaperVars, panicked, nextCall, callT, deliveryVars, lastOk, pendingAtClose,
                   timedOut, opsVars, extVars>>

\* `t.submitted = true`
SubmitSetSubmitted(u) ==
    /\ Alive /\ upc[u] = "s_sub"
    /\ submitted' = [submitted EXCEPT ![ut[u]] = TRUE]
    /\ upc' = [upc EXCEPT ![u] = "s_reap"]
    /\ UNCHANGED <<handleVars, mapVars, reaped, reapErr, condL, kernelVars, ut, ucall,
                   reaperVars, panicked, callVars, deliveryVars, lastOk, pendingAtClose,
                   timedOut, opsVars, extVars>>

\* `t.reaped = false`
SubmitClearReaped(u) ==
    /\ Alive /\ upc[u] = "s_reap"
    /\ reaped' = [reaped EXCEPT ![ut[u]] = FALSE]
    /\ upc' = [upc EXCEPT ![u] = "s_reg"]
    /\ UNCHANGED <<handleVars, mapVars, submitted, reapErr, condL, kernelVars, ut, ucall,
                   reaperVars, panicked, callVars, deliveryVars, lastOk, pendingAtClose,
                   timedOut, opsVars, extVars>>

\* `go h.reapLoop()`: the next reaper goroutine starts at the top of its loop
IdleReaper == CHOOSE r \in Reapers : rpc[r] = "idle" /\ \A q \in Reapers : rpc[q] = "idle" => r <= q

\* as StartReaper, without the test of h.reaping
StartReaperUnconditionally ==
    /\ \E r \in Reapers : rpc[r] = "idle"
    /\ reaping' = TRUE
    /\ rpc' = [rpc EXCEPT ![IdleReaper] = "check"]

\* as StartReaper, had the goroutine been started without `h.reaping = true`
StartReaperLeavesFlag ==
    IF reaping
      THEN UNCHANGED <<reaping, rpc>>
      ELSE /\ UNCHANGED reaping
           /\ rpc' = [rpc EXCEPT ![IdleReaper] = "check"]

\* `if !h.reaping { h.reaping = true; go h.reapLoop() }`
StartReaper ==
    IF reaping
      THEN UNCHANGED <<reaping, rpc>>
      ELSE /\ reaping' = TRUE
           /\ rpc' = [rpc EXCEPT ![IdleReaper] = "check"]

\* DeviceHandle.registerURBCompletion under h.reapMutex, then Submit's
\* `return nil` with the deferred RUnlock
registerURBCompletion(u) ==
    /\ Alive /\ upc[u] = "s_reg" /\ reapMutex = 0
    /\ reaping \/ \E r \in Reapers : rpc[r] = "idle"
    /\ IF reapMapNil
         THEN /\ panicked' = "assignment to entry in nil map"
              /\ UNCHANGED <<reapMap, reaping, rpc, readers, userVars, callState, lastOk>>
         ELSE /\ reapMap' = [reapMap EXCEPT ![ut[u]] = ucall[u]]
              /\ StartReaper
              /\ readers' = readers \ {u}
              /\ callState' = [callState EXCEPT ![ucall[u]] = "ok"]
              /\ lastOk' = [lastOk EXCEPT ![ut[u]] = ucall[u]]
              /\ Return(u)
              /\ UNCHANGED panicked
    /\ UNCHANGED <<closed, fdOpen, writers, reapMapNil, reapMutex, transferVars, kernelVars,
                   rerrno, rkey, rerr, rcb, rtodo, nextCall, callT, deliveryVars, pendingAtClose,
                   timedOut, opsVars, extVars>>

\* ------------------------------------------------------------------------
\* AsyncTransfer.Wait / IsochronousTransfer.Wait

\* Wait is called on a transfer that some Submit call has returned nil for
WaitBegin(u, t) ==
    /\ Alive /\ upc[u] = "idle" /\ lastOk[t] # NoCall
    /\ upc' = [upc EXCEPT ![u] = "w_wait"]
    /\ ut' = [ut EXCEPT ![u] = t]
    /\ ucall' = [ucall EXCEPT ![u] = lastOk[t]]
    /\ UNCHANGED <<handleVars, mapVars, transferVars, kernelVars, reaperVars, panicked,
                   callVars, deliveryVars, lastOk, pendingAtClose,
                   timedOut, opsVars, extVars>>

\* waitForReaping: `for !t.reaped { t.reapCond.Wait() }` under t.reapCond.L
waitForReaping(u) ==
    /\ Alive /\ upc[u] = "w_wait"
    /\ ~condL[ut[u]] /\ reaped[ut[u]]
    /\ upc' = [upc EXCEPT ![u] = "w_ret"]
    /\ UNCHANGED <<handleVars, mapVars, transferVars, kernelVars, ut, ucall, reaperVars,
                   panicked, callVars, deliveryVars, lastOk, pendingAtClose,
                   timedOut, opsVars, extVars>>

\* `return t.reapErr`, read after the lock was dropped
WaitReturn(u) ==
    /\ Alive /\ upc[u] = "w_ret"
    /\ Return(u)
    /\ UNCHANGED <<handleVars, mapVars, transferVars, kernelVars, reaperVars, panicked,
                   callVars, deliveryVars, lastOk, pendingAtClose,
                   timedOut, opsVars, extVars>>

\* ------------------------------------------------------------------------
\* DeviceHandle.Close

\* `h.mu.Lock()`: the writer waits for the readers and holds back new ones
CloseLock(u) ==
    /\ Alive /\ upc[u] = "idle"
    /\ upc' = [upc EXCEPT ![u] = "c_lock"]
    /\ writers' = writers \cup {u}
    /\ UNCHANGED <<closed, fdOpen, readers, mapVars, transferVars, kernelVars, ut, ucall,
                   reaperVars, panicked, callVars, deliveryVars, lastOk, pendingAtClose,
                   timedOut, opsVars, extVars>>

Pending == {c \in CallIds : callState[c] = "ok" /\ delivered[c] = 0}

\* as Close, had `h.mu.Lock()` not waited for the goroutines holding the lock
\* in read mode
CloseIgnoresReaders(u) ==
    /\ Alive /\ upc[u] = "c_lock"
    /\ writers' = writers \ {u}
    /\ Return(u)
    /\ IF closed
         THEN UNCHANGED <<closed, fdOpen, pendingAtClose>>
         ELSE /\ fdOpen' = FALSE
              /\ closed' = TRUE
              /\ pendingAtClose' = Pending
    /\ UNCHANGED <<readers, mapVars, transferVars, kernelVars, reaperVars, panicked,
                   callVars, deliveryVars, lastOk,
                   timedOut, opsVars, extVars>>

\* the body of Close under the write lock, to its return
Close(u) ==
    /\ Alive /\ upc[u] = "c_lock" /\ readers = {}
    /\ writers' = writers \ {u}
    /\ Return(u)
    /\ IF closed
         THEN UNCHANGED <<closed, fdOpen, pendingAtClose>>
         ELSE /\ fdOpen' = FALSE
              /\ closed' = TRUE
              /\ pendingAtClose' = Pending
    /\ UNCHANGED <<readers, mapVars, transferVars, kernelVars, reaperVars, panicked,
                   callVars, deliveryVars, lastOk,
                   timedOut, opsVars, extVars>>

\* ------------------------------------------------------------------------
\* the kernel: the device is unplugged
Disconnect ==
    /\ Alive /\ connected
    /\ connected' = FALSE
    /\ UNCHANGED <<handleVars, mapVars, transferVars, kernel, userVars, reaperVars,
                   panicked, callVars, deliveryVars, lastOk, pendingAtClose,
                   timedOut, opsVars, extVars>>

\* ------------------------------------------------------------------------
\* DeviceHandle.reapLoop

Keys == {t \in Transfers : reapMap[t] # NoCall}

\* as Retryable, with EINTR forgotten
RetryableOnlyEAGAIN(e) == e = "EAGAIN"

\* `errno == syscall.EINTR || errno == syscall.EAGAIN`
Retryable(e) == e \in {"EINTR", "EAGAIN"}

\* `h.mu.RLock(); closed := h.closed; h.mu.RUnlock(); if closed {`
ReapCheckClosed(r) ==
    /\ Alive /\ rpc[r] = "check" /\ writers = {}
    /\ rpc' = [rpc EXCEPT ![r] = IF closed THEN "closedpath" ELSE "reap"]
    /\ UNCHANGED <<handleVars, mapVars, transferVars, kernelVars, userVars,
                   rerrno, rkey, rerr, rcb, rtodo, panicked,
                   callVars, deliveryVars, lastOk, pendingAtClose,
                   timedOut, opsVars, extVars>>

\* the closed branch takes h.reapMutex and starts ranging over the map
ReapClosedPath(r) ==
    /\ Alive /\ rpc[r] = "closedpath" /\ reapMutex = 0
    /\ reapMutex' = r
    /\ rtodo' = [rtodo EXCEPT ![r] = Keys]
    /\ rerr' = [rerr EXCEPT ![r] = ErrDeviceNotFound]
    /\ rpc' = [rpc EXCEPT ![r] = "bcast"]
    /\ UNCHANGED <<handleVars, reapMap, reapMapNil, reaping, transferVars, kernelVars,
                   userVars, rerrno, rkey, rcb, panicked,
                   callVars, deliveryVars, lastOk, pendingAtClose,
                   timedOut, opsVars, extVars>>

\* the REAPURB ioctl is entered: on a closed descriptor it fails at once
\* (EBADF), on an open one the goroutine blocks in the kernel
ReapEnter(r) ==
    /\ Alive /\ rpc[r] = "reap"
    /\ IF fdOpen
         THEN /\ rpc' = [rpc EXCEPT ![r] = "blocked"]
              /\ UNCHANGED rerrno
         ELSE /\ rerrno' = [rerrno EXCEPT ![r] = "EBADF"]
              /\ rpc' = [rpc EXCEPT ![r] = "errpath"]
    /\ UNCHANGED <<handleVars, mapVars, transferVars, kernelVars, userVars,
                   rkey, rerr, rcb, rtodo, panicked,
                   callVars, deliveryVars, lastOk, pendingAtClose,
                   timedOut, opsVars, extVars>>

\* the blocked REAPURB returns a completed URB: any URB in flight may be the
\* next to complete, with status zero or not
ReapReturnURB(r) ==
    /\ Alive /\ rpc[r] = "blocked"
    /\ \E c \in kernel, st \in {ErrNil, ErrURBStatus} :
          /\ kernel' = kernel \ {c}
          /\ rkey' = [rkey EXCEPT ![r] = callT[c]]
          /\ rerr' = [rerr EXCEPT ![r] = st]
    /\ rpc' = [rpc EXCEPT ![r] = "lookup"]
    /\ UNCHANGED <<handleVars, mapVars, transferVars, connected, userVars,
                   rerrno, rcb, rtodo, panicked,
                   callVars, deliveryVars, lastOk, pendingAtClose,
                   timedOut, opsVars, extVars>>

\* the blocked REAPURB returns an errno: a signal or a spurious wake-up at any
\* time, ENODEV once the device is unplugged. `continue` on the first two.
ReapReturnErrno(r) ==
    /\ Alive /\ rpc[r] = "blocked"
    /\ \E e \in {"EINTR", "EAGAIN"} \cup (IF connected THEN {} ELSE {"ENODEV"}) :
          IF Retryable(e)
            THEN /\ rpc' = [rpc EXCEPT ![r] = "check"]
                 /\ UNCHANGED rerrno
            ELSE /\ rpc' = [rpc EXCEPT ![r] = "errpath"]
                 /\ rerrno' = [rerrno EXCEPT ![r] = e]
    /\ UNCHANGED <<handleVars, mapVars, transferVars, kernelVars, userVars,
                   rkey, rerr, rcb, rtodo, panicked,
                   callVars, deliveryVars, lastOk, pendingAtClose,
                   timedOut, opsVars, extVars>>

\* `else if errno != 0 {` takes h.reapMutex and starts ranging over the map
ReapErrPath(r) ==
    /\ Alive /\ rpc[r] = "errpath" /\ reapMutex = 0
    /\ reapMutex' = r
    /\ rtodo' = [rtodo EXCEPT ![r] = Keys]
    /\ rerr' = [rerr EXCEPT ![r] = ErrReaperFailed]
    /\ rpc' = [rpc EXCEPT ![r] = "bcast"]
    /\ UNCHANGED <<handleVars, reapMap, reapMapNil, reaping, transferVars, kernelVars,
                   userVars, rerrno, rkey, rcb, panicked,
                   callVars, deliveryVars, lastOk, pendingAtClose,
                   timedOut, opsVars, extVars>>

\* one turn of `for _, callback := range h.reapMap { callback(err) }`, in any
\* order; after the last one the map is replaced (by nil in the closed branch),
\* h.reaping is cleared, the mutex released and the goroutine returns
ReapBroadcast(r) ==
    /\ Alive /\ rpc[r] = "bcast"
    /\ IF rtodo[r] # {}
         THEN /\ \E k \in rtodo[r] :
                    /\ rcb' = [rcb EXCEPT ![r] = reapMap[k]]
                    /\ rtodo' = [rtodo EXCEPT ![r] = rtodo[r] \ {k}]
              /\ rpc' = [rpc EXCEPT ![r] = "cb_lock"]
              /\ UNCHANGED <<mapVars, rerr>>
         ELSE /\ reapMap' = [t \in Transfers |-> NoCall]
              /\ reapMapNil' = (rerr[r] = ErrDeviceNotFound)
              /\ reaping' = FALSE
              /\ reapMutex' = 0
              /\ rpc' = [rpc EXCEPT ![r] = "exited"]
              /\ rerr' = [rerr EXCEPT ![r] = ErrNil]
              /\ UNCHANGED <<rcb, rtodo>>
    /\ UNCHANGED <<handleVars, transferVars, kernelVars, userVars, rerrno, rkey, panicked,
                   callVars, deliveryVars, lastOk, pendingAtClose,
                   timedOut, opsVars, extVars>>

\* `callback, ok := h.reapMap[reapedURB]; if !ok { panic }; delete(...)` under
\* h.reapMutex
ReapLookup(r) ==
    /\ Alive /\ rpc[r] = "lookup" /\ reapMutex = 0
    /\ IF reapMap[rkey[r]] = NoCall
         THEN /\ panicked' = "reapLoop: no callback for reaped URB"
              /\ UNCHANGED <<reapMap, rcb, rpc>>
         ELSE /\ rcb' = [rcb EXCEPT ![r] = reapMap[rkey[r]]]
              /\ reapMap' = [reapMap EXCEPT ![rkey[r]] = NoCall]
              /\ rpc' = [rpc EXCEPT ![r] = "cb_lock"]
              /\ UNCHANGED panicked
    /\ UNCHANGED <<handleVars, reapMapNil, reaping, reapMutex, transferVars, kernelVars,
                   userVars, rerrno, rkey, rerr, rtodo,
                   callVars, deliveryVars, lastOk, pendingAtClose,
                   timedOut, opsVars, extVars>>

\* the completion callback Submit registered, run by the reaper:
\* `t.reapCond.L.Lock(); t.reapErr = err`
CallbackLock(r) ==
    /\ Alive /\ rpc[r] = "cb_lock" /\ ~condL[callT[rcb[r]]]
    /\ condL' = [condL EXCEPT ![callT[rcb[r]]] = TRUE]
    /\ reapErr' = [reapErr EXCEPT ![callT[rcb[r]]] = rerr[r]]
    /\ reapErrCall' = [reapErrCall EXCEPT ![callT[rcb[r]]] = rcb[r]]
    /\ delivered' = [delivered EXCEPT ![rcb[r]] = @ + 1]
    /\ rpc' = [rpc EXCEPT ![r] = "cb_sub"]
    /\ UNCHANGED <<handleVars, mapVars, submitted, reaped, kernelVars, userVars,
                   rerrno, rkey, rerr, rcb, rtodo, panicked,
                   callVars, lastOk, pendingAtClose,
                   timedOut, opsVars, extVars>>

\* `t.submitted = false`
CallbackClearSubmitted(r) ==
    /\ Alive /\ rpc[r] = "cb_sub"
    /\ submitted' = [submitted EXCEPT ![callT[rcb[r]]] = FALSE]
    /\ rpc' = [rpc EXCEPT ![r] = "cb_reaped"]
    /\ UNCHANGED <<handleVars, mapVars, reaped, reapErr, condL, kernelVars, userVars,
                   rerrno, rkey, rerr, rcb, rtodo, panicked,
                   callVars, deliveryVars, lastOk, pendingAtClose,
                   timedOut, opsVars, extVars>>

\* as CallbackSetReaped, without the deferred `t.reapCond.L.Unlock()`
CallbackSetReapedKeepsLock(r) ==
    /\ Alive /\ rpc[r] = "cb_reaped"
    /\ reaped' = [reaped EXCEPT ![callT[rcb[r]]] = TRUE]
    /\ rcb' = [rcb EXCEPT ![r] = NoCall]
    /\ rkey' = [rkey EXCEPT ![r] = 0]
    /\ IF reapMutex = r
         THEN /\ rpc' = [rpc EXCEPT ![r] = "bcast"]
              /\ UNCHANGED rerr
         ELSE /\ rpc' = [rpc EXCEPT ![r] = "check"]
              /\ rerr' = [rerr EXCEPT ![r] = ErrNil]
    /\ UNCHANGED <<handleVars, mapVars, submitted, reapErr, condL, kernelVars, userVars,
                   rerrno, rtodo, panicked,
                   callVars, deliveryVars, lastOk, pendingAtClose,
                   timedOut, opsVars, extVars>>

\* `t.reaped = true; t.reapCond.Broadcast()`, the deferred Unlock, and back to
\* the range loop or to the top of reapLoop
CallbackSetReaped(r) ==
    /\ Alive /\ rpc[r] = "cb_reaped"
    /\ reaped' = [reaped EXCEPT ![callT[rcb[r]]] = TRUE]
    /\ condL' = [condL EXCEPT ![callT[rcb[r]]] = FALSE]
    /\ rcb' = [rcb EXCEPT ![r] = NoCall]
    /\ rkey' = [rkey EXCEPT ![r] = 0]
    /\ IF reapMutex = r
         THEN /\ rpc' = [rpc EXCEPT ![r] = "bcast"]
              /\ UNCHANGED rerr
         ELSE /\ rpc' = [rpc EXCEPT ![r] = "check"]
              /\ rerr' = [rerr EXCEPT ![r] = ErrNil]
    /\ UNCHANGED <<handleVars, mapVars, submitted, reapErr, kernelVars, userVars,
                   rerrno, rtodo, panicked,
                   callVars, deliveryVars, lastOk, pendingAtClose,
                   timedOut, opsVars, extVars>>

\* ------------------------------------------------------------------------
\* the steps of the application goroutines U, the kernel and the reapers
NextOf(U) ==
    \/ \E u \in U, t \in Transfers : SubmitBegin(u, t)
    \/ \E u \in U : SubmitLock(u)
    \/ \E u \in U : SubmitIoctl(u)
    \/ \E u \in U : SubmitSetSubmitted(u)
    \/ \E u \in U : SubmitClearReaped(u)
    \/ \E u \in U : registerURBCompletion(u)
    \/ \E u \in U, t \in Transfers : WaitBegin(u, t)
    \/ \E u \in U : waitForReaping(u)
    \/ \E u \in U : WaitReturn(u)
    \/ \E u \in U : CloseLock(u)
    \/ \E u \in U : Close(u)
    \/ Disconnect
    \/ \E r \in Reapers : ReapCheckClosed(r)
    \/ \E r \in Reapers : ReapClosedPath(r)
    \/ \E r \in Reapers : ReapEnter(r)
    \/ \E r \in Reapers : ReapReturnURB(r)
    \/ \E r \in Reapers : ReapReturnErrno(r)
    \/ \E r \in Reapers : ReapErrPath(r)
    \/ \E r \in Reapers : ReapBroadcast(r)
    \/ \E r \in Reapers : ReapLookup(r)
    \/ \E r \in Reapers : CallbackLock(r)
    \/ \E r \in Reapers : CallbackClearSubmitted(r)
    \/ \E r \in Reapers : CallbackSetReaped(r)

Next == NextOf(Users)

Spec == Init /\ [][Next]_vars

\* the same handle used by a single application goroutine
NextOneUser == NextOf({1})

SpecOneUser == Init /\ [][NextOneUser]_vars


\* ========================================================================
\* Device.Open and the synchronous methods of DeviceHandle
\*
\* A method that holds h.mu in write mode from its first statement to its
\* return and touches nothing that is read without h.mu is one step, taken
\* when the lock can be had. Close is the exception: it writes h.closed and
\* d.handle, which Open reads under d.mu only, and it closes the descriptor
\* that GetConfiguration and GetStringDescriptor use without any lock.

ErrDeviceBusy == "ErrDeviceBusy"
ErrTimeout == "ErrTimeout"
ErrInvalidParameter == "ErrInvalidParameter"
ErrPermissionDenied == "ErrPermissionDenied"
ErrNotClaimed == "interface not claimed"

Created(h) == h < nextHandle

\* h.mu.Lock() can return / h.mu.RLock() can return (a blocked Lock holds
\* back new readers)
WLockFree(h) == hReaders[h] = {} /\ hWriter[h] = NoGoroutine
RLockFree(h) == hWriter[h] = NoGoroutine /\ hWaiting[h] = {}

\* Close has returned on h: h.closed is set and its write lock released
CloseReturned(h) == hClosed[h] /\ hWriter[h] = NoGoroutine

\* a call of method op on handle h (and interface i) begins
Begin(op, h, i) ==
    [NoCallRecord EXCEPT !.op = op, !.h = h, !.i = i,
                         !.late = CloseReturned(h),
                         !.held = (i \in hClaimed[h])]

\* what an ioctl on h.fd can return: EBADF when the descriptor is closed,
\* ENODEV when the device is unplugged, otherwise one of `normal`
Errnos(h, normal) ==
    IF ~hFdOpen[h] THEN {"EBADF"}
    ELSE IF ~kConnected THEN {"ENODEV"}
    ELSE normal

\* the call issued the kernel call `name` on h.fd and got errno e
Issue(c, h, name, e) ==
    [c EXCEPT !.calls = @ \cup {name}, !.badfd = @ \/ ~hFdOpen[h], !.errno = e]

\* `if errno != 0 { return errno }; return nil`
ErrnoResult(e) == IF e = "0" THEN "nil" ELSE e

\* goroutine g returns res from call c
Returns(g, c, res) ==
    /\ last' = [c EXCEPT !.res = res]
    /\ gpc' = [gpc EXCEPT ![g] = "idle"]
    /\ gcall' = [gcall EXCEPT ![g] = NoCallRecord]

\* ------------------------------------------------------------------------
\* Device.Open

\* a call of Device.Open begins
BeginOpen == [NoCallRecord EXCEPT !.op = "Open"]

\* `d.mu.Lock(); if d.handle != nil && !d.handle.closed { return nil, ErrDeviceBusy }`
\* (n bounds the handles opened in a run)
OpenCheck(g, n) ==
    /\ gpc[g] = "idle" /\ dMu = NoGoroutine /\ nextHandle <= n
    /\ IF dHandle # NoHandle /\ ~hClosed[dHandle]
         THEN /\ Returns(g, BeginOpen, ErrDeviceBusy)
              /\ UNCHANGED dMu
         ELSE /\ dMu' = g
              /\ gpc' = [gpc EXCEPT ![g] = "o_open"]
              /\ gcall' = [gcall EXCEPT ![g] = BeginOpen]
              /\ UNCHANGED last
    /\ UNCHANGED <<asyncVars, extVars, dHandle, nextHandle, lockVars, stateVars, kVars>>

\* `syscall.Open(d.Path, O_RDWR, 0)`, the new DeviceHandle, `d.handle = handle`
\* and the deferred Unlock
OpenCreate(g) ==
    /\ gpc[g] = "o_open"
    /\ dMu' = NoGoroutine
    /\ \E e \in (IF kConnected THEN {"0", "EACCES"} ELSE {"ENOENT"}) :
          IF e = "0"
            THEN /\ hFdOpen' = [hFdOpen EXCEPT ![nextHandle] = TRUE]
                 /\ dHandle' = nextHandle
                 /\ nextHandle' = nextHandle + 1
                 /\ Returns(g, [Issue(gcall[g], nextHandle, "open", e) EXCEPT
                                   !.h = nextHandle, !.badfd = FALSE], "nil")
            ELSE /\ Returns(g, [gcall[g] EXCEPT !.calls = {"open"}, !.errno = e],
                            IF e = "EACCES" THEN ErrPermissionDenied
                                            ELSE "failed to open device")
                 /\ UNCHANGED <<hFdOpen, dHandle, nextHandle>>
    /\ UNCHANGED <<asyncVars, extVars, lockVars, hClosed, hClaimed, closeCalls, kVars>>

\* ------------------------------------------------------------------------
\* DeviceHandle.releaseInterfaceInternal(i) with the release ioctl returning e:
\* the entry is deleted only when the ioctl succeeded

ReleaseErrnos(h, i) ==
    Errnos(h, IF kOwner[i] = h THEN {"0"} ELSE {"EINVAL"})

releaseInterfaceInternal(h, i, e) ==
    IF i \in hClaimed[h] /\ e = "0"
      THEN /\ hClaimed' = [hClaimed EXCEPT ![h] = @ \ {i}]
           /\ kOwner' = [kOwner EXCEPT ![i] = NoHandle]
      ELSE UNCHANGED <<hClaimed, kOwner>>

\* the record of the call after releaseInterfaceInternal(i)
Released(c, h, i, e) ==
    IF i \in hClaimed[h] THEN Issue(c, h, "RELEASEINTERFACE", e) ELSE c

\* ------------------------------------------------------------------------
\* DeviceHandle.Close

\* as AlreadyClosed, with the test of h.closed left out
NeverAlreadyClosed(h) == FALSE

\* `if h.closed { return nil }`
AlreadyClosed(h) == hClosed[h]

\* Close calls h.mu.Lock() and waits for it
CloseWait(g, h) ==
    /\ gpc[g] = "idle" /\ Created(h)
    /\ gpc' = [gpc EXCEPT ![g] = "c_wait"]
    /\ gcall' = [gcall EXCEPT ![g] = Begin("Close", h, NoIface)]
    /\ hWaiting' = [hWaiting EXCEPT ![h] = @ \cup {g}]
    /\ UNCHANGED <<asyncVars, extVars, deviceVars, hReaders, hWriter, stateVars, kVars, last>>

\* h.mu.Lock() returns; `if h.closed { return nil }` with the deferred Unlock
CloseEnter(g) ==
    /\ gpc[g] = "c_wait" /\ WLockFree(gcall[g].h)
    /\ LET h == gcall[g].h
           c == [gcall[g] EXCEPT !.nth = closeCalls[h] + 1]
       IN /\ hWaiting' = [hWaiting EXCEPT ![h] = @ \ {g}]
          /\ closeCalls' = [closeCalls EXCEPT ![h] = IF @ < 2 THEN @ + 1 ELSE @]
          /\ IF AlreadyClosed(h)
               THEN /\ Returns(g, c, "nil")
                    /\ UNCHANGED hWriter
               ELSE /\ hWriter' = [hWriter EXCEPT ![h] = g]
                    /\ gpc' = [gpc EXCEPT ![g] = "c_rel"]
                    /\ gcall' = [gcall EXCEPT ![g] = c]
                    /\ UNCHANGED last
    /\ UNCHANGED <<asyncVars, extVars, deviceVars, hReaders, hClosed, hFdOpen, hClaimed, kVars>>

\* `for iface := range h.claimedIfaces { h.releaseInterfaceInternal(iface) }`:
\* one turn of the loop per step; the interfaces already visited are in the
\* record (done), the result of each release is dropped
CloseRelease(g) ==
    /\ gpc[g] = "c_rel"
    /\ LET h == gcall[g].h
           todo == hClaimed[h] \ gcall[g].done
       IN IF todo = {}
            THEN /\ gpc' = [gpc EXCEPT ![g] = "c_close"]
                 /\ UNCHANGED <<gcall, hClaimed, kOwner>>
            ELSE \E i \in todo : \E e \in ReleaseErrnos(h, i) :
                    /\ releaseInterfaceInternal(h, i, e)
                    /\ gcall' = [gcall EXCEPT ![g] =
                                   [Released(gcall[g], h, i, e) EXCEPT !.done = @ \cup {i}]]
                    /\ UNCHANGED gpc
    /\ UNCHANGED <<asyncVars, extVars, deviceVars, lockVars, hClosed, hFdOpen, closeCalls,
                   kConnected, last>>

\* `err := syscall.Close(h.fd)`: the kernel drops whatever the descriptor
\* still had claimed
CloseFd(g) ==
    /\ gpc[g] = "c_close"
    /\ LET h == gcall[g].h
       IN /\ \E e \in {"0", "EIO"} :
                gcall' = [gcall EXCEPT ![g] = Issue(gcall[g], h, "close", e)]
          /\ hFdOpen' = [hFdOpen EXCEPT ![h] = FALSE]
          /\ kOwner' = [i \in Ifaces |-> IF kOwner[i] = h THEN NoHandle ELSE kOwner[i]]
    /\ gpc' = [gpc EXCEPT ![g] = "c_flag"]
    /\ UNCHANGED <<asyncVars, extVars, deviceVars, lockVars, hClosed, hClaimed, closeCalls,
                   kConnected, last>>

\* `h.closed = true`
CloseSetClosed(g) ==
    /\ gpc[g] = "c_flag"
    /\ hClosed' = [hClosed EXCEPT ![gcall[g].h] = TRUE]
    /\ gpc' = [gpc EXCEPT ![g] = "c_nil"]
    /\ UNCHANGED <<asyncVars, extVars, deviceVars, lockVars, hFdOpen, hClaimed, closeCalls,
                   kVars, gcall, last>>

\* `h.device.handle = nil; return err` with the deferred Unlock
CloseClearHandle(g) ==
    /\ gpc[g] = "c_nil"
    /\ dHandle' = NoHandle
    /\ hWriter' = [hWriter EXCEPT ![gcall[g].h] = NoGoroutine]
    /\ Returns(g, gcall[g], ErrnoResult(gcall[g].errno))
    /\ UNCHANGED <<asyncVars, extVars, dMu, nextHandle, hReaders, hWaiting, stateVars, kVars>>

\* ------------------------------------------------------------------------
\* methods that run under h.mu.Lock()

\* SetConfiguration and ClearHalt: the closed test, one ioctl, its errno
LockedIoctl(g, h, op, name) ==
    /\ gpc[g] = "idle" /\ Created(h) /\ WLockFree(h)
    /\ LET c == Begin(op, h, NoIface)
       IN IF hClosed[h]
            THEN Returns(g, c, ErrDeviceNotFound)
            ELSE \E e \in Errnos(h, {"0", "EIO"}) :
                    Returns(g, Issue(c, h, name, e), ErrnoResult(e))
    /\ UNCHANGED <<asyncVars, extVars, deviceVars, lockVars, stateVars, kVars>>

SetConfiguration(g, h) == LockedIoctl(g, h, "SetConfiguration", "SETCONFIGURATION")

ClearHalt(g, h) == LockedIoctl(g, h, "ClearHalt", "CLEAR_HALT")

\* the kernel's answer to CLAIMINTERFACE: the interface is free or already
\* this descriptor's, or it is bound to a kernel driver or to another
\* descriptor
ClaimErrnos(h, i) ==
    Errnos(h, IF kOwner[i] \in {NoHandle, h} THEN {"0"} ELSE {"EBUSY"})

\* the body of ClaimInterface after the closed test, the claim ioctl (if one
\* is issued) returning e
ClaimEffect(h, i, e) ==
    IF i \notin hClaimed[h] /\ e = "0"
      THEN /\ hClaimed' = [hClaimed EXCEPT ![h] = @ \cup {i}]
           /\ kOwner' = [kOwner EXCEPT ![i] = h]
      ELSE UNCHANGED <<hClaimed, kOwner>>

Claimed(c, h, i, e) ==
    IF i \in hClaimed[h] THEN c ELSE Issue(c, h, "CLAIMINTERFACE", e)

\* `if h.claimedIfaces[iface] { return nil }; ...; if errno != 0 { return errno }`
ClaimResult(h, i, e) == IF i \in hClaimed[h] THEN "nil" ELSE ErrnoResult(e)

ClaimInterface(g, h, i) ==
    /\ gpc[g] = "idle" /\ Created(h) /\ WLockFree(h)
    /\ LET c == Begin("ClaimInterface", h, i)
       IN IF hClosed[h]
            THEN /\ Returns(g, c, ErrDeviceNotFound)
                 /\ UNCHANGED <<hClaimed, kOwner>>
            ELSE \E e \in ClaimErrnos(h, i) :
                    /\ ClaimEffect(h, i, e)
                    /\ Returns(g, Claimed(c, h, i, e), ClaimResult(h, i, e))
    /\ UNCHANGED <<asyncVars, extVars, deviceVars, lockVars, hClosed, hFdOpen, closeCalls, kConnected>>

ReleaseInterface(g, h, i) ==
    /\ gpc[g] = "idle" /\ Created(h) /\ WLockFree(h)
    /\ LET c == Begin("ReleaseInterface", h, i)
       IN IF hClosed[h]
            THEN /\ Returns(g, c, ErrDeviceNotFound)
                 /\ UNCHANGED <<hClaimed, kOwner>>
            ELSE \E e \in ReleaseErrnos(h, i) :
                    /\ releaseInterfaceInternal(h, i, e)
                    /\ Returns(g, Released(c, h, i, e),
                               IF i \in hClaimed[h] THEN ErrnoResult(e) ELSE "nil")
    /\ UNCHANGED <<asyncVars, extVars, deviceVars, lockVars, hClosed, hFdOpen, closeCalls, kConnected>>

\* as IsClaimed, with the test of h.claimedIfaces left out
IsClaimedAlways(h, i) == TRUE

\* `h.claimedIfaces[iface]`
IsClaimed(h, i) == i \in hClaimed[h]

SetInterfaceAltSetting(g, h, i) ==
    /\ gpc[g] = "idle" /\ Created(h) /\ WLockFree(h)
    /\ LET c == Begin("SetInterfaceAltSetting", h, i)
       IN IF hClosed[h]
            THEN Returns(g, c, ErrDeviceNotFound)
            ELSE IF ~IsClaimed(h, i)
              THEN Returns(g, c, ErrNotClaimed)
              ELSE \E e \in Errnos(h, {"0", "EINVAL"}) :
                      Returns(g, Issue(c, h, "SETINTERFACE", e), ErrnoResult(e))
    /\ UNCHANGED <<asyncVars, extVars, deviceVars, lockVars, stateVars, kVars>>

\* DISCONNECT_CLAIM with the IF_DRIVER flag and an empty driver name: the
\* kernel claims a free interface for the descriptor and refuses a bound one
DisconnectClaimErrnos(h, i) ==
    Errnos(h, IF kOwner[i] = NoHandle THEN {"0"} ELSE {"EBUSY"})

\* DISCONNECT unbinds whatever driver holds the interface
DisconnectErrnos(h, i) ==
    Errnos(h, IF kOwner[i] = NoHandle THEN {"ENODATA"} ELSE {"0", "ENOTTY"})

DetachKernelDriver(g, h, i) ==
    /\ gpc[g] = "idle" /\ Created(h) /\ WLockFree(h)
    /\ LET c == Begin("DetachKernelDriver", h, i)
       IN IF hClosed[h]
            THEN /\ Returns(g, c, ErrDeviceNotFound)
                 /\ UNCHANGED kOwner
            ELSE \E e1 \in DisconnectClaimErrnos(h, i) :
                   IF e1 = "0"
                     THEN /\ kOwner' = [kOwner EXCEPT ![i] = h]
                          /\ Returns(g, Issue(c, h, "DISCONNECT_CLAIM", e1), "nil")
                     ELSE \E e2 \in DisconnectErrnos(h, i) :
                            /\ kOwner' = [kOwner EXCEPT ![i] = IF e2 = "0" THEN NoHandle ELSE @]
                            /\ Returns(g, Issue(Issue(c, h, "DISCONNECT_CLAIM", e1),
                                                h, "DISCONNECT", e2),
                                       IF e2 \in {"0", "ENODATA", "ENOENT"} THEN "nil"
                                       ELSE IF e2 = "ENOTTY"
                                         THEN "device doesn't support driver detachment"
                                         ELSE e2)
    /\ UNCHANGED <<asyncVars, extVars, deviceVars, lockVars, stateVars, kConnected>>

\* CONNECT binds a kernel driver to a free interface
ConnectErrnos(h, i) ==
    Errnos(h, IF kOwner[i] = NoHandle THEN {"0", "ENODATA"} ELSE {"EBUSY"})

AttachKernelDriver(g, h, i) ==
    /\ gpc[g] = "idle" /\ Created(h) /\ WLockFree(h)
    /\ LET c == Begin("AttachKernelDriver", h, i)
       IN IF hClosed[h]
            THEN /\ Returns(g, c, ErrDeviceNotFound)
                 /\ UNCHANGED kOwner
            ELSE \E e \in ConnectErrnos(h, i) :
                    /\ kOwner' = [kOwner EXCEPT ![i] = IF e = "0" THEN KernelDriver ELSE @]
                    /\ Returns(g, Issue(c, h, "CONNECT", e),
                               IF e \in {"0", "ENODATA", "EBUSY"} THEN "nil" ELSE e)
    /\ UNCHANGED <<asyncVars, extVars, deviceVars, lockVars, stateVars, kConnected>>

\* ------------------------------------------------------------------------
\* KernelDriverActive: ClaimInterface, then ReleaseInterface if it succeeded

\* `err := h.ClaimInterface(iface); if err != nil { if err == ErrDeviceBusy
\* { return true, nil }; return false, err }`
KernelDriverActiveClaim(g, h, i) ==
    /\ gpc[g] = "idle" /\ Created(h) /\ WLockFree(h)
    /\ LET c == Begin("KernelDriverActive", h, i)
       IN IF hClosed[h]
            THEN /\ Returns(g, c, ErrDeviceNotFound)
                 /\ UNCHANGED <<hClaimed, kOwner>>
            ELSE \E e \in ClaimErrnos(h, i) :
                    /\ ClaimEffect(h, i, e)
                    /\ LET err == ClaimResult(h, i, e)
                       IN IF err = "nil"
                            THEN /\ gpc' = [gpc EXCEPT ![g] = "k_rel"]
                                 /\ gcall' = [gcall EXCEPT ![g] = Claimed(c, h, i, e)]
                                 /\ UNCHANGED last
                            ELSE Returns(g, Claimed(c, h, i, e),
                                         IF err = ErrDeviceBusy THEN "true" ELSE err)
    /\ UNCHANGED <<asyncVars, extVars, deviceVars, lockVars, hClosed, hFdOpen, closeCalls, kConnected>>

\* `h.ReleaseInterface(iface); return false, nil`
KernelDriverActiveRelease(g) ==
    /\ gpc[g] = "k_rel" /\ WLockFree(gcall[g].h)
    /\ LET h == gcall[g].h
           i == gcall[g].i
       IN IF hClosed[h]
            THEN /\ Returns(g, gcall[g], "false")
                 /\ UNCHANGED <<hClaimed, kOwner>>
            ELSE \E e \in ReleaseErrnos(h, i) :
                    /\ releaseInterfaceInternal(h, i, e)
                    /\ Returns(g, Released(gcall[g], h, i, e), "false")
    /\ UNCHANGED <<asyncVars, extVars, deviceVars, lockVars, hClosed, hFdOpen, closeCalls, kConnected>>

\* ------------------------------------------------------------------------
\* methods that take no lock and do not look at h.closed

\* GetConfiguration: one CONTROL ioctl on h.fd
GetConfiguration(g, h) ==
    /\ gpc[g] = "idle" /\ Created(h)
    /\ \E e \in Errnos(h, {"0", "EIO"}) :
          Returns(g, Issue(Begin("GetConfiguration", h, NoIface), h, "CONTROL", e),
                  ErrnoResult(e))
    /\ UNCHANGED <<asyncVars, extVars, deviceVars, lockVars, stateVars, kVars>>

\* GetStringDescriptor: `if index == 0 { return "", nil }`, one CONTROL ioctl,
\* `if buf[0] < 2 { return error }`
GetStringDescriptor(g, h) ==
    /\ gpc[g] = "idle" /\ Created(h)
    /\ LET c == Begin("GetStringDescriptor", h, NoIface)
       IN \/ Returns(g, c, "nil")
          \/ \E e \in Errnos(h, {"0", "EIO"}) :
                \E r \in (IF e = "0" THEN {"nil", "invalid string descriptor"} ELSE {e}) :
                   Returns(g, Issue(c, h, "CONTROL", e), r)
    /\ UNCHANGED <<asyncVars, extVars, deviceVars, lockVars, stateVars, kVars>>

\* ------------------------------------------------------------------------
\* methods that run under h.mu.RLock()

\* newAsyncTransfer: `if h.closed { return nil, ErrDeviceNotFound }`
newAsyncTransfer(g, h) ==
    /\ gpc[g] = "idle" /\ Created(h) /\ RLockFree(h)
    /\ Returns(g, Begin("newAsyncTransfer", h, NoIface),
               IF hClosed[h] THEN ErrDeviceNotFound ELSE "nil")
    /\ UNCHANGED <<asyncVars, extVars, deviceVars, lockVars, stateVars, kVars>>

\* InterruptTransfer(endpoint, data, timeout) is
\* InterruptTransferWithRetry(endpoint, data, timeout, 1)
MaxRetries == 1

\* bulk and interrupt transfers go through BulkTransferWithOptions
ViaBulk(op) == op \in {"BulkTransfer", "InterruptTransfer"}

\* ControlTransfer and BulkTransferWithOptions up to the ioctl:
\* `h.mu.RLock(); defer h.mu.RUnlock(); if h.closed { return 0, ErrDeviceNotFound }`,
\* and for bulk `if len(data) == 0 && !allowZeroLength { return 0, ErrInvalidParameter }`.
\* InterruptTransferWithRetry returns these two errors at once (`break`); the
\* data has the same length in every turn of its loop.
TransferEnter(g, h, c) ==
    /\ RLockFree(h)
    /\ IF hClosed[h]
         THEN /\ Returns(g, c, ErrDeviceNotFound)
              /\ UNCHANGED hReaders
         ELSE \/ /\ ViaBulk(c.op) /\ c.attempt = 0
                 /\ Returns(g, c, ErrInvalidParameter)
                 /\ UNCHANGED hReaders
              \/ /\ hReaders' = [hReaders EXCEPT ![h] = @ \cup {g}]
                 /\ gpc' = [gpc EXCEPT ![g] = "x_ioctl"]
                 /\ gcall' = [gcall EXCEPT ![g] = [c EXCEPT !.xerrno = "0"]]
                 /\ UNCHANGED last
    /\ UNCHANGED <<asyncVars, extVars, deviceVars, hWriter, hWaiting, stateVars, kVars>>

\* a call of ControlTransfer, BulkTransfer or InterruptTransfer begins
TransferBegin(g, h, op) ==
    /\ gpc[g] = "idle" /\ Created(h)
    /\ TransferEnter(g, h, Begin(op, h, NoIface))

\* the next turn of the loop of InterruptTransferWithRetry calls BulkTransfer
TransferRetry(g) ==
    /\ gpc[g] = "x_retry"
    /\ TransferEnter(g, gcall[g].h, gcall[g])

\* `if errno == syscall.ETIMEDOUT { return 0, ErrTimeout }` is in the bulk
\* method only
TransferResult(op, e) ==
    IF ViaBulk(op) /\ e = "ETIMEDOUT" THEN ErrTimeout ELSE ErrnoResult(e)

\* the CONTROL or BULK ioctl returns after the transfer finished, failed or
\* timed out; the deferred RUnlock. ControlTransfer and BulkTransfer return;
\* InterruptTransferWithRetry returns on success, goes on to ClearHalt on
\* ErrTimeout (a raw errno never equals ErrIO) and otherwise to its next turn.
TransferIoctl(g) ==
    /\ gpc[g] = "x_ioctl"
    /\ LET h == gcall[g].h
           op == gcall[g].op
       IN /\ \E e \in Errnos(h, {"0", "ETIMEDOUT", "EIO"}) :
                LET c == [Issue(gcall[g], h, IF ViaBulk(op) THEN "BULK" ELSE "CONTROL", e)
                             EXCEPT !.xerrno = e]
                    err == TransferResult(op, e)
                IN IF op # "InterruptTransfer" \/ err = "nil"
                     THEN Returns(g, c, err)
                   ELSE IF err = ErrTimeout
                     THEN /\ gpc' = [gpc EXCEPT ![g] = "x_halt"]
                          /\ gcall' = [gcall EXCEPT ![g] = [c EXCEPT !.res = err]]
                          /\ UNCHANGED last
                   ELSE IF c.attempt < MaxRetries
                     THEN /\ gpc' = [gpc EXCEPT ![g] = "x_retry"]
                          /\ gcall' = [gcall EXCEPT ![g] =
                                         [c EXCEPT !.res = err, !.attempt = @ + 1]]
                          /\ UNCHANGED last
                   ELSE Returns(g, c, err)
          /\ hReaders' = [hReaders EXCEPT ![h] = @ \ {g}]
    /\ UNCHANGED <<asyncVars, extVars, deviceVars, hWriter, hWaiting, stateVars, kVars>>

\* `if clearErr := h.ClearHalt(endpoint); clearErr != nil { break }`, then the
\* loop's `attempt++` and test, `return 0, lastErr` after the loop
TransferClearHalt(g) ==
    /\ gpc[g] = "x_halt" /\ WLockFree(gcall[g].h)
    /\ LET h == gcall[g].h
           c == gcall[g]
       IN IF hClosed[h]
            THEN Returns(g, c, c.res)
            ELSE \E e \in Errnos(h, {"0", "EIO"}) :
                    IF e = "0" /\ c.attempt < MaxRetries
                      THEN /\ gpc' = [gpc EXCEPT ![g] = "x_retry"]
                           /\ gcall' = [gcall EXCEPT ![g] =
                                          [Issue(c, h, "CLEAR_HALT", e) EXCEPT !.attempt = @ + 1]]
                           /\ UNCHANGED last
                      ELSE Returns(g, Issue(c, h, "CLEAR_HALT", e), c.res)
    /\ UNCHANGED <<asyncVars, extVars, deviceVars, lockVars, stateVars, kVars>>

\* ------------------------------------------------------------------------
\* the kernel: the device is unplugged
Unplug ==
    /\ kConnected
    /\ kConnected' = FALSE
    /\ UNCHANGED <<asyncVars, extVars, deviceVars, lockVars, stateVars, kOwner, gpc, gcall, last>>

\* the steps of the goroutines that use the Device and its handles
NextOps ==
    \/ \E g \in Goroutines : OpenCheck(g, OpsHandles)
    \/ \E g \in Goroutines : OpenCreate(g)
    \/ \E g \in Goroutines, h \in Handles : CloseWait(g, h)
    \/ \E g \in Goroutines : CloseEnter(g)
    \/ \E g \in Goroutines : CloseRelease(g)
    \/ \E g \in Goroutines : CloseFd(g)
    \/ \E g \in Goroutines : CloseSetClosed(g)
    \/ \E g \in Goroutines : CloseClearHandle(g)
    \/ \E g \in Goroutines, h \in Handles : SetConfiguration(g, h)
    \/ \E g \in Goroutines, h \in Handles : ClearHalt(g, h)
    \/ \E g \in Goroutines, h \in Handles, i \in Ifaces : ClaimInterface(g, h, i)
    \/ \E g \in Goroutines, h \in Handles, i \in Ifaces : ReleaseInterface(g, h, i)
    \/ \E g \in Goroutines, h \in Handles, i \in Ifaces : SetInterfaceAltSetting(g, h, i)
    \/ \E g \in Goroutines, h \in Handles, i \in Ifaces : DetachKernelDriver(g, h, i)
    \/ \E g \in Goroutines, h \in Handles, i \in Ifaces : AttachKernelDriver(g, h, i)
    \/ \E g \in Goroutines, h \in Handles, i \in Ifaces : KernelDriverActiveClaim(g, h, i)
    \/ \E g \in Goroutines : KernelDriverActiveRelease(g)
    \/ \E g \in Goroutines, h \in Handles : GetConfiguration(g, h)
    \/ \E g \in Goroutines, h \in Handles : GetStringDescriptor(g, h)
    \/ \E g \in Goroutines, h \in Handles : newAsyncTransfer(g, h)
    \/ \E g \in Goroutines, h \in Handles : TransferBegin(g, h, "ControlTransfer")
    \/ \E g \in Goroutines, h \in Handles : TransferBegin(g, h, "BulkTransfer")
    \/ \E g \in Goroutines, h \in Handles : TransferBegin(g, h, "InterruptTransfer")
    \/ \E g \in Goroutines : TransferIoctl(g)
    \/ \E g \in Goroutines : TransferRetry(g)
    \/ \E g \in Goroutines : TransferClearHalt(g)
    \/ Unplug

SpecOps == Init /\ [][NextOps]_vars

\* the steps of goroutines that only open and close handles of the Device
NextOpenClose ==
    \/ \E g \in Goroutines : OpenCheck(g, NumHandles)
    \/ \E g \in Goroutines : OpenCreate(g)
    \/ \E g \in Goroutines, h \in Handles : CloseWait(g, h)
    \/ \E g \in Goroutines : CloseEnter(g)
    \/ \E g \in Goroutines : CloseRelease(g)
    \/ \E g \in Goroutines : CloseFd(g)
    \/ \E g \in Goroutines : CloseSetClosed(g)
    \/ \E g \in Goroutines : CloseClearHandle(g)
    \/ \E g \in Goroutines, h \in Handles, i \in Ifaces : ClaimInterface(g, h, i)
    \/ Unplug

SpecOpenClose == Init /\ [][NextOpenClose]_vars

\* ========================================================================
\* AsyncTransfer.Cancel / IsochronousTransfer.Cancel and
\* AsyncTransfer.WaitWithTimeout, on the handle of the asynchronous engine

otherOps == <<dHandle, dMu, nextHandle, hClosed, hFdOpen, hClaimed, hReaders, hWriter,
              hWaiting, closeCalls, kConnected, kOwner, gpc, gcall>>

\* the URB of Submit call c is still with the kernel (not yet handed to a reap)
Queued(c) == c \in kernel

\* what is remembered of a Cancel or WaitWithTimeout call on the submission c:
\* whether c's URB was still with the kernel when the call looked (held)
WaitRecord(op, c, calls, e, res) ==
    [NoCallRecord EXCEPT !.op = op, !.nth = c, !.held = Queued(c),
                         !.calls = calls, !.errno = e, !.res = res]

\* the kernel's answer to DISCARDURB: ENODEV once the device is unplugged,
\* EINVAL when the URB is not pending (already reaped, or completed and
\* waiting to be reaped), zero when it was pending and is now being unlinked
DiscardErrnos(c) ==
    IF ~connected THEN {"ENODEV"}
    ELSE IF Queued(c) THEN {"0", "EINVAL"}
    ELSE {"EINVAL"}

\* `if errno != 0 && errno != syscall.EINVAL { return error }; return nil`
CancelResult(e) == IF e \in {"0", "EINVAL"} THEN "nil" ELSE "failed to cancel URB"

\* Cancel is called on a transfer that some Submit call has returned nil for:
\* `if !t.submitted { return fmt.Errorf("transfer not submitted") }`, read
\* without any lock
CancelBegin(u, t) ==
    /\ Alive /\ upc[u] = "idle" /\ lastOk[t] # NoCall
    /\ IF ~submitted[t]
         THEN /\ last' = WaitRecord("Cancel", lastOk[t], {}, "0", "transfer not submitted")
              /\ UNCHANGED userVars
         ELSE /\ upc' = [upc EXCEPT ![u] = "cn_ioctl"]
              /\ ut' = [ut EXCEPT ![u] = t]
              /\ ucall' = [ucall EXCEPT ![u] = lastOk[t]]
              /\ UNCHANGED last
    /\ UNCHANGED <<handleVars, mapVars, transferVars, kernelVars, reaperVars, panicked,
                   callVars, deliveryVars, lastOk, pendingAtClose, timedOut, otherOps, extVars>>

\* the rest of Cancel: `t.handle.mu.RLock(); if t.handle.closed { return
\* ErrDeviceNotFound }`, the DISCARDURB ioctl (which does not block) and the
\* deferred RUnlock. Called from WaitWithTimeout, its result is dropped and
\* WaitWithTimeout returns ErrTimeout.
CancelIoctl(u) ==
    /\ Alive /\ upc[u] \in {"cn_ioctl", "wt_ioctl"} /\ writers = {}
    /\ LET c == ucall[u]
           timeout == upc[u] = "wt_ioctl"
           op == IF timeout THEN "WaitWithTimeout" ELSE "Cancel"
       IN /\ IF closed
               THEN last' = WaitRecord(op, c, {}, "0",
                                       IF timeout THEN ErrTimeout ELSE ErrDeviceNotFound)
               ELSE \E e \in DiscardErrnos(c) :
                       last' = WaitRecord(op, c, {"DISCARDURB"}, e,
                                          IF timeout THEN ErrTimeout ELSE CancelResult(e))
          /\ timedOut' = IF timeout THEN timedOut \cup {c} ELSE timedOut
    /\ Return(u)
    /\ UNCHANGED <<handleVars, mapVars, transferVars, kernelVars, reaperVars, panicked,
                   callVars, deliveryVars, lastOk, pendingAtClose, otherOps, extVars>>

\* WaitWithTimeout is called on a transfer that some Submit call has returned
\* nil for: it starts the goroutine that waits for t.reaped and selects
WaitTimeoutBegin(u, t) ==
    /\ Alive /\ upc[u] = "idle" /\ lastOk[t] # NoCall
    /\ upc' = [upc EXCEPT ![u] = "wt_select"]
    /\ ut' = [ut EXCEPT ![u] = t]
    /\ ucall' = [ucall EXCEPT ![u] = lastOk[t]]
    /\ UNCHANGED <<handleVars, mapVars, transferVars, kernelVars, reaperVars, panicked,
                   callVars, deliveryVars, lastOk, pendingAtClose, timedOut, opsVars, extVars>>

\* `case err := <-done: return err`: the goroutine has come out of
\* waitForReaping and sent t.reapErr
WaitTimeoutDone(u) ==
    /\ Alive /\ upc[u] = "wt_select"
    /\ ~condL[ut[u]] /\ reaped[ut[u]]
    /\ last' = WaitRecord("WaitWithTimeout", ucall[u], {}, "0", reapErr[ut[u]])
    /\ Return(u)
    /\ UNCHANGED <<handleVars, mapVars, transferVars, kernelVars, reaperVars, panicked,
                   callVars, deliveryVars, lastOk, pendingAtClose, timedOut, otherOps, extVars>>

\* `case <-time.After(timeout): t.Cancel(); return ErrTimeout`, up to Cancel's
\* test of t.submitted
WaitTimeoutExpire(u) ==
    /\ Alive /\ upc[u] = "wt_select"
    /\ IF ~submitted[ut[u]]
         THEN /\ last' = WaitRecord("WaitWithTimeout", ucall[u], {}, "0", ErrTimeout)
              /\ timedOut' = timedOut \cup {ucall[u]}
              /\ Return(u)
         ELSE /\ upc' = [upc EXCEPT ![u] = "wt_ioctl"]
              /\ UNCHANGED <<ut, ucall, last, timedOut>>
    /\ UNCHANGED <<handleVars, mapVars, transferVars, kernelVars, reaperVars, panicked,
                   callVars, deliveryVars, lastOk, pendingAtClose, otherOps, extVars>>

\* one application goroutine that also cancels and waits with a timeout
NextCancel ==
    \/ NextOf({1})
    \/ \E t \in Transfers : CancelBegin(1, t)
    \/ CancelIoctl(1)
    \/ \E t \in Transfers : WaitTimeoutBegin(1, t)
    \/ WaitTimeoutDone(1)
    \/ WaitTimeoutExpire(1)

SpecCancel == Init /\ [][NextCancel]_vars

\* ========================================================================
\* The data of one transfer: construction, Submit's reset of the URB block,
\* what the kernel writes into it, and what the completion callback copies
\* out. The locking and the reaper are those of the first part; here a
\* Submit and a callback are one step each.

otherVars == <<asyncVars, opsVars, parseVars, pathVars, legacyVars, resetVars, retryVars>>

\* the AsyncTransfer of the URB engine, by the type it was constructed with
UrbAsyncKinds == {"AsyncIso", "AsyncBulk"}

\* NewIsochronousTransfer(endpoint, NumPackets, PacketSize)
NewIsochronousTransfer ==
    /\ tKind = "none"
    /\ tKind' = "IsochronousTransfer"
    /\ tPackets' = [i \in Packets |-> Packet(PacketSize, 0, "0")]
    /\ urbSlots' = [i \in Packets |-> Packet(PacketSize, 0, "0")]
    /\ UNCHANGED <<urb, tActualLength, tSubmitted, tReaped, tReapErr, urbAt, handed,
                   tStatus, gsPc, otherVars>>

\* newAsyncTransfer(endpoint, TransferTypeIsochronous, NumPackets * PacketSize,
\* NumPackets): t.isoPackets and the URB block are zeroed memory
newAsyncTransferIso ==
    /\ tKind = "none"
    /\ tKind' = "AsyncIso"
    /\ tPackets' = ZeroPackets
    /\ UNCHANGED <<urbSlots, urb, tActualLength, tSubmitted, tReaped, tReapErr, urbAt,
                   handed, tStatus, gsPc, otherVars>>

\* NewBulkTransfer / NewInterruptTransfer / NewControlTransfer
NewBulkTransfer ==
    /\ tKind = "none"
    /\ tKind' = "AsyncBulk"
    /\ UNCHANGED <<tPackets, urbSlots, urb, tActualLength, tSubmitted, tReaped, tReapErr,
                   urbAt, handed, tStatus, gsPc, otherVars>>

\* AsyncTransferManager.NewAsyncTransfer(endpoint, TransferTypeBulk, BufferSize, 0)
\* of async.go: `status: TransferCompleted`
NewAsyncTransfer ==
    /\ tKind = "none"
    /\ tKind' = "ManagerAsync"
    /\ tStatus' = "TransferCompleted"
    /\ UNCHANGED <<tPackets, urbSlots, urb, tActualLength, tSubmitted, tReaped, tReapErr,
                   urbAt, handed, gsPc, otherVars>>

\* AsyncTransfer.SetIsoPacketLengths(length)
SetIsoPacketLengths(length) ==
    /\ tKind = "AsyncIso"
    /\ tPackets' = [i \in Packets |-> [tPackets[i] EXCEPT !.Length = length]]
    /\ UNCHANGED <<tKind, urbSlots, urb, tActualLength, tSubmitted, tReaped, tReapErr,
                   urbAt, handed, tStatus, gsPc, otherVars>>

\* the application clears the request lengths of the descriptors that
\* IsochronousTransfer.GetPackets returned to it (the slice is t.packets)
ClearPacketLengths ==
    /\ tKind = "IsochronousTransfer" /\ tReaped
    /\ \E i \in Packets : tPackets[i].Length # 0
    /\ tPackets' = [i \in Packets |-> [tPackets[i] EXCEPT !.Length = 0]]
    /\ UNCHANGED <<tKind, urbSlots, urb, tActualLength, tSubmitted, tReaped, tReapErr,
                   urbAt, handed, tStatus, gsPc, otherVars>>

\* IsochronousTransfer.Submit, `// Reset packet descriptors`
IsoSubmitSlots == [i \in Packets |-> Packet(PacketSize, 0, "0")]

\* AsyncTransfer.Submit, `// Set up iso packets if needed`
AsyncSubmitSlots == [i \in Packets |-> Packet(tPackets[i].Length, 0, "0")]

SubmitSlots ==
    CASE tKind = "IsochronousTransfer" -> IsoSubmitSlots
      [] tKind = "AsyncIso" -> AsyncSubmitSlots
      [] OTHER -> urbSlots

\* Submit of AsyncTransfer and of IsochronousTransfer: the URB fields and the
\* slots are reset, then SUBMITURB answers e
DataSubmit(e) ==
    /\ tKind \in UrbAsyncKinds \cup {"IsochronousTransfer"}
    /\ ~tSubmitted /\ urbAt = "user" /\ handed.n < MaxSubmits
    /\ urb' = [Status |-> "0", ActualLength |-> 0]
    /\ urbSlots' = SubmitSlots
    /\ IF e # "0"
         THEN UNCHANGED <<tSubmitted, tReaped, urbAt, handed>>
         ELSE /\ tSubmitted' = TRUE /\ tReaped' = FALSE
              /\ urbAt' = "kernel"
              /\ handed' = [n |-> handed.n + 1, slots |-> SubmitSlots,
                            first |-> IF handed.n = 0 THEN SubmitSlots ELSE handed.first,
                            actual |-> 0]
    /\ UNCHANGED <<tKind, tPackets, tActualLength, tReapErr, tStatus, gsPc, otherVars>>

\* what the kernel can write into one slot that requests len bytes
SlotResults(len) ==
    {Packet(len, a, st) : a \in 0..len, st \in {"0", "-EXDEV"}}

RECURSIVE SumActual(_, _)
\* the sum of the actual lengths of the packets S of pk
SumActual(pk, S) ==
    IF S = {} THEN 0
    ELSE LET i == CHOOSE j \in S : TRUE
         IN pk[i].ActualLength + SumActual(pk, S \ {i})

\* the kernel completes the queued URB: it writes the URB's status and
\* actual_length and, for an isochronous URB, every slot's actual_length and
\* status (actual_length is then the sum over the slots)
KernelComplete ==
    /\ urbAt = "kernel"
    /\ \E st \in {"0", "-ENOENT", "-ETIMEDOUT"} :
         IF tKind = "AsyncBulk"
           THEN \E a \in 0..BufferSize :
                   /\ urb' = [Status |-> st, ActualLength |-> a]
                   /\ handed' = [handed EXCEPT !.actual = a]
                   /\ UNCHANGED urbSlots
           ELSE \E res \in [Packets -> UNION {SlotResults(urbSlots[i].Length) : i \in Packets}] :
                   /\ \A i \in Packets : res[i].Length = urbSlots[i].Length
                   /\ urbSlots' = res
                   /\ urb' = [Status |-> st, ActualLength |-> SumActual(res, Packets)]
                   /\ handed' = [handed EXCEPT !.actual = SumActual(res, Packets)]
    /\ urbAt' = "done"
    /\ UNCHANGED <<tKind, tPackets, tActualLength, tSubmitted, tReaped, tReapErr, tStatus,
                   gsPc, otherVars>>

\* the function Submit registers with registerURBCompletion, called with err
CompletionCallback(err) ==
    /\ tReapErr' = err
    /\ IF err # ErrNil
         THEN UNCHANGED <<tPackets, urb, tActualLength>>
         ELSE CASE tKind = "IsochronousTransfer" ->
                     /\ tPackets' = urbSlots
                     /\ urb' = [urb EXCEPT !.ActualLength = SumActual(urbSlots, Packets)]
                     /\ UNCHANGED tActualLength
                [] tKind = "AsyncIso" ->
                     /\ tActualLength' = urb.ActualLength
                     /\ tPackets' = [i \in Packets |->
                                       [tPackets[i] EXCEPT
                                           !.ActualLength = urbSlots[i].ActualLength,
                                           !.Status = urbSlots[i].Status]]
                     /\ UNCHANGED urb
                [] OTHER ->
                     /\ tActualLength' = urb.ActualLength
                     /\ UNCHANGED <<tPackets, urb>>
    /\ tSubmitted' = FALSE /\ tReaped' = TRUE

\* reapLoop reaps the completed URB and calls the callback with the URB status
ReapCompleted ==
    /\ urbAt = "done"
    /\ CompletionCallback(IF urb.Status # "0" THEN ErrURBStatus ELSE ErrNil)
    /\ urbAt' = "user"
    /\ UNCHANGED <<tKind, urbSlots, handed, tStatus, gsPc, otherVars>>

\* reapLoop gives up (handle closed, or REAPURB failed) and calls the callback
\* of the still queued URB with that error
ReapAbandoned ==
    /\ urbAt = "kernel"
    /\ \E err \in {ErrDeviceNotFound, ErrReaperFailed} : CompletionCallback(err)
    /\ urbAt' = "user"
    /\ UNCHANGED <<tKind, urbSlots, handed, tStatus, gsPc, otherVars>>

\* AsyncTransfer.Submit of async.go with the goroutine it starts
\* (executeTransfer): the synchronous transfer moves n bytes or fails
ManagerSubmit ==
    /\ tKind = "ManagerAsync" /\ handed.n < MaxSubmits
    /\ \E err \in {ErrNil, ErrTimeout, ErrDeviceNotFound} :
         IF err = ErrNil
           THEN \E n \in 0..BufferSize :
                   /\ tStatus' = "TransferCompleted" /\ tActualLength' = n
                   /\ handed' = [handed EXCEPT !.n = @ + 1, !.actual = n]
           ELSE /\ tStatus' = IF err = ErrTimeout THEN "TransferTimedOut"
                              ELSE "TransferError"
                /\ handed' = [handed EXCEPT !.n = @ + 1, !.actual = 0]
                /\ UNCHANGED tActualLength
    /\ UNCHANGED <<tKind, tPackets, urbSlots, urb, tSubmitted, tReaped, tReapErr, urbAt,
                   gsPc, otherVars>>

\* AsyncTransfer.GetStatus after waitForReaping has returned
GetStatusValue ==
    IF tReapErr # ErrNil
      THEN IF urb.Status = "-ETIMEDOUT" THEN "TransferTimedOut" ELSE "TransferError"
      ELSE "TransferCompleted"

\* GetStatus is called: the AsyncTransfer of async.go returns t.status; the
\* one of the URB engine enters waitForReaping, `for !t.reaped {
\* t.reapCond.Wait() }`
GetStatusCall ==
    /\ gsPc # "waiting"
    /\ \/ tKind = "ManagerAsync" /\ gsPc' = tStatus
       \/ tKind \in UrbAsyncKinds /\ gsPc' = IF tReaped THEN GetStatusValue ELSE "waiting"
    /\ UNCHANGED <<tKind, tPackets, urbSlots, urb, tActualLength, tSubmitted, tReaped,
                   tReapErr, urbAt, handed, tStatus, otherVars>>

\* the callback's Broadcast wakes the waiting GetStatus
GetStatusWake ==
    /\ gsPc = "waiting" /\ tReaped
    /\ gsPc' = GetStatusValue
    /\ UNCHANGED <<tKind, tPackets, urbSlots, urb, tActualLength, tSubmitted, tReaped,
                   tReapErr, urbAt, handed, tStatus, otherVars>>

NextData ==
    \/ NewIsochronousTransfer
    \/ newAsyncTransferIso
    \/ NewBulkTransfer
    \/ NewAsyncTransfer
    \/ \E length \in {0, PacketSize} : SetIsoPacketLengths(length)
    \/ ClearPacketLengths
    \/ \E e \in {"0", "ENODEV"} : DataSubmit(e)
    \/ KernelComplete
    \/ ReapCompleted
    \/ ReapAbandoned
    \/ ManagerSubmit
    \/ GetStatusCall
    \/ GetStatusWake

SpecData == Init /\ [][NextData]_vars

\* IsochronousTransfer.GetActualLength / AsyncTransfer.GetActualLength, once
\* waitForReaping has returned
GetActualLength ==
    IF tKind = "IsochronousTransfer" THEN urb.ActualLength ELSE tActualLength

\* the transfer has completed (its callback has run) and was not resubmitted
Completed == handed.n > 0 /\ tReaped /\ urbAt = "user"

\* ========================================================================
\* ConfigDescriptor.Unmarshal (config.go): one step for the header, one for
\* each turn of the loop, one for leaving the loop and building c.Interfaces

MaxRecords == 3        \* descriptors after the header in one input

USB_DT_INTERFACE == 4
USB_DT_ENDPOINT == 5
USB_DT_INTERFACE_ASSOCIATION == 11
USB_DT_SS_ENDPOINT_COMPANION == 48

ErrConfigTooShort == "config descriptor too short"
ErrInterfaceTooShort == "interface descriptor too short"
ErrEndpointTooShort == "endpoint descriptor too short"

notParseVars == <<asyncVars, opsVars, dataVars, pathVars, legacyVars, resetVars, retryVars>>

\* the configuration header of the unit test
Header == <<9, 2, 32, 0, 1, 1, 0, 192, 50>>

InterfaceRecord(n, a) == <<9, USB_DT_INTERFACE, n, a, 1, 255, 0, 0, 0>>
EndpointRecord(addr) == <<7, USB_DT_ENDPOINT, addr, 2, 64, 0, 10>>

\* the descriptors inputs are put together from: interfaces 0, 1 and 255,
\* endpoints, a companion, a class-specific descriptor, an association
\* descriptor, and short, tiny and zero-length ones
Records ==
    {InterfaceRecord(n, a) : n \in {0, 1}, a \in {0, 1}}
    \cup {InterfaceRecord(255, 0)}
    \cup {<<7, USB_DT_INTERFACE, 0, 0, 0, 15, 240>>, <<2, USB_DT_INTERFACE>>}
    \cup {EndpointRecord(129), EndpointRecord(2), <<5, USB_DT_ENDPOINT, 129, 2, 255>>}
    \cup {<<6, USB_DT_SS_ENDPOINT_COMPANION, 0, 0, 0, 0>>,
          <<5, USB_DT_SS_ENDPOINT_COMPANION, 0, 0, 0>>}
    \cup {<<3, 36, 1>>, <<8, USB_DT_INTERFACE_ASSOCIATION, 0, 2, 255, 0, 0, 0>>,
          <<2, 36>>, <<1>>, <<0>>}

RECURSIVE Concat(_)
Concat(rs) == IF rs = <<>> THEN <<>> ELSE Head(rs) \o Concat(Tail(rs))

\* the header followed by up to max descriptors, cut off anywhere
Inputs(max) ==
    LET whole == {Header \o Concat(rs) :
                     rs \in UNION {[1..n -> Records] : n \in 0..max}}
    IN UNION {{SubSeq(f, 1, k) : k \in 0..Len(f)} : f \in whole}

InitParse ==
    InitAsync /\ InitOps /\ InitData /\ PathStart(<<>>) /\ InitLegacy /\ InitReset
    /\ RetryStart(1)
    /\ \E d \in Inputs(MaxRecords) : ParserStart(d)

\* data[i]
At(i) == data[i + 1]

\* data[a:b]
Slice(a, b) == SubSeq(data, a + 1, b)

\* every index of S is inside the input
InBounds(S) == \A i \in S : i >= 0 /\ i < Len(data)

\* an index expression outside the input: the Go runtime panics
Panics ==
    /\ ppc' = "panic"
    /\ UNCHANGED <<pos, cHeader, interfaceMap, currentInterface, currentEndpoints,
                   extraBuffer, cExtra, cInterfaces, perr, processed, stopped>>

\* `if len(data) < 9 { return error }`, then the header fields
UnmarshalBegin ==
    /\ ppc = "start"
    /\ IF Len(data) < 9
         THEN /\ ppc' = "returned" /\ perr' = ErrConfigTooShort
              /\ UNCHANGED <<pos, cHeader>>
         ELSE /\ cHeader' = [Length |-> At(0), DescriptorType |-> At(1),
                             TotalLength |-> At(2) + 256 * At(3),
                             NumInterfaces |-> At(4), ConfigurationValue |-> At(5),
                             ConfigurationIndex |-> At(6), Attributes |-> At(7),
                             MaxPower |-> At(8)]
              /\ pos' = 9 /\ ppc' = "loop"
              /\ UNCHANGED perr
    /\ UNCHANGED <<data, interfaceMap, currentInterface, currentEndpoints, extraBuffer,
                   cExtra, cInterfaces, processed, stopped, notParseVars>>

\* `for pos < len(data)` fails, or one of the two breaks is taken
LoopStops ==
    IF pos >= Len(data) THEN TRUE
    ELSE IF pos + 2 > Len(data) THEN TRUE
    ELSE IF At(pos) = 0 THEN TRUE
    ELSE pos + At(pos) > Len(data)

StopReason ==
    CASE pos >= Len(data) -> "end of input"
      [] pos + 2 > Len(data) -> "no room for length and type"
      [] At(pos) = 0 -> "zero length"
      [] OTHER -> "record longer than the rest"

\* the loop is at a record that passed the checks: `length`, `descType`
InLoop == ppc = "loop" /\ ~LoopStops
RecLength == At(pos)
DescType == At(pos + 1)

\* *currentInterface with its endpoints and extra bytes filled in
CurrentAlt ==
    [currentInterface[1] EXCEPT !.Endpoints = currentEndpoints, !.Extra = extraBuffer]

\* `// Add or update interface in map`
Flushed ==
    IF currentInterface = <<>> THEN interfaceMap
    ELSE LET n == CurrentAlt.InterfaceNumber
         IN [k \in DOMAIN interfaceMap \cup {n} |->
                IF k # n THEN interfaceMap[k]
                ELSE IF n \in DOMAIN interfaceMap THEN Append(interfaceMap[n], CurrentAlt)
                ELSE <<CurrentAlt>>]

RECURSIVE Ascending(_, _)
\* the entries of m with a key in S, by increasing key
Ascending(m, S) ==
    IF S = {} THEN <<>>
    ELSE LET i == CHOOSE j \in S : \A k \in S : j <= k
         IN <<[AltSettings |-> m[i]]>> \o Ascending(m, S \ {i})

\* `for i := range uint8(255) { if iface, exists := interfaceMap[i]; exists {
\* c.Interfaces = append(c.Interfaces, *iface) } }`: i takes the values 0..254
SortedInterfaces(m) == Ascending(m, {i \in DOMAIN m : i < 255})

\* the loop is left; `// Save last interface if exists`, `// Convert map to
\* sorted slice`, `return nil`
LoopExit ==
    /\ ppc = "loop" /\ LoopStops
    /\ stopped' = [at |-> pos, why |-> StopReason]
    /\ interfaceMap' = Flushed
    /\ currentInterface' = IF currentInterface = <<>> THEN <<>> ELSE <<CurrentAlt>>
    /\ cInterfaces' = SortedInterfaces(Flushed)
    /\ ppc' = "returned"
    /\ UNCHANGED <<data, pos, cHeader, currentEndpoints, extraBuffer, cExtra, perr,
                   processed, notParseVars>>

\* what is remembered of a record the switch dispatched on
Dispatched ==
    [offset |-> pos, length |-> RecLength, descType |-> DescType,
     inInterface |-> currentInterface # <<>>]

\* `if length < 9 { return error }`
InterfaceTooShort(len) == len < 9

\* `if length < 7 { return error }`
EndpointTooShortLax(len) == len < 5
EndpointTooShort(len) == len < 7

\* `case USB_DT_INTERFACE`
OnInterface ==
    /\ InLoop /\ DescType = USB_DT_INTERFACE
    /\ IF ~InterfaceTooShort(RecLength) /\ ~InBounds(pos..(pos + 8))
         THEN Panics
         ELSE /\ processed' = Append(processed, Dispatched)
              /\ interfaceMap' = Flushed
              /\ IF InterfaceTooShort(RecLength)
                   THEN /\ ppc' = "returned" /\ perr' = ErrInterfaceTooShort
                        /\ currentInterface' =
                              IF currentInterface = <<>> THEN <<>> ELSE <<CurrentAlt>>
                        /\ currentEndpoints' = <<>>
                        /\ UNCHANGED pos
                   ELSE /\ currentInterface' =
                              <<[Length |-> At(pos), DescriptorType |-> At(pos + 1),
                                 InterfaceNumber |-> At(pos + 2),
                                 AlternateSetting |-> At(pos + 3),
                                 NumEndpoints |-> At(pos + 4),
                                 InterfaceClass |-> At(pos + 5),
                                 InterfaceSubClass |-> At(pos + 6),
                                 InterfaceProtocol |-> At(pos + 7),
                                 InterfaceIndex |-> At(pos + 8),
                                 Endpoints |-> <<>>, Extra |-> <<>>,
                                 offset |-> pos]>>
                        /\ currentEndpoints' = <<>>
                        /\ pos' = pos + RecLength
                        /\ UNCHANGED <<ppc, perr>>
              /\ extraBuffer' = IF currentInterface = <<>> THEN extraBuffer ELSE <<>>
              /\ UNCHANGED <<cHeader, cExtra, cInterfaces, stopped>>
    /\ UNCHANGED <<data, notParseVars>>

\* `if nextPos+companionLen <= len(data) && companionLen >= 6`
CompanionFitsAnyLength(nextPos, companionLen) == nextPos + companionLen <= Len(data)
CompanionFits(nextPos, companionLen) ==
    nextPos + companionLen <= Len(data) /\ companionLen >= 6

\* `case USB_DT_ENDPOINT`
OnEndpoint ==
    /\ InLoop /\ DescType = USB_DT_ENDPOINT
    /\ LET nextPos == pos + RecLength
           looks == nextPos + 2 <= Len(data)
                    /\ At(nextPos + 1) = USB_DT_SS_ENDPOINT_COMPANION
           companionLen == At(nextPos)
           takes == looks /\ CompanionFits(nextPos, companionLen)
       IN IF currentInterface = <<>>
            THEN /\ cExtra' = cExtra \o Slice(pos, pos + RecLength)
                 /\ pos' = pos + RecLength
                 /\ processed' = Append(processed, Dispatched)
                 /\ UNCHANGED <<ppc, perr, currentEndpoints, cHeader, interfaceMap,
                                currentInterface, extraBuffer, cInterfaces, stopped>>
            ELSE IF EndpointTooShort(RecLength)
            THEN /\ ppc' = "returned" /\ perr' = ErrEndpointTooShort
                 /\ processed' = Append(processed, Dispatched)
                 /\ UNCHANGED <<pos, currentEndpoints, cExtra, cHeader, interfaceMap,
                                currentInterface, extraBuffer, cInterfaces, stopped>>
            ELSE IF ~InBounds(pos..(pos + 6))
                    \/ (takes /\ ~InBounds(nextPos..(nextPos + 5)))
            THEN Panics
            ELSE /\ currentEndpoints' = Append(currentEndpoints,
                       [Length |-> At(pos), DescriptorType |-> At(pos + 1),
                        EndpointAddr |-> At(pos + 2), Attributes |-> At(pos + 3),
                        MaxPacketSize |-> At(pos + 4) + 256 * At(pos + 5),
                        Interval |-> At(pos + 6),
                        SSCompanion |->
                           IF takes
                             THEN <<[Length |-> At(nextPos),
                                     DescriptorType |-> At(nextPos + 1),
                                     MaxBurst |-> At(nextPos + 2),
                                     Attributes |-> At(nextPos + 3),
                                     BytesPerInterval |->
                                        At(nextPos + 4) + 256 * At(nextPos + 5)]>>
                             ELSE <<>>,
                        offset |-> pos])
                 /\ pos' = IF takes THEN nextPos + companionLen ELSE pos + RecLength
                 /\ processed' = Append(processed, Dispatched)
                 /\ UNCHANGED <<ppc, perr, cExtra, cHeader, interfaceMap,
                                currentInterface, extraBuffer, cInterfaces, stopped>>
    /\ UNCHANGED <<data, notParseVars>>

\* `case USB_DT_INTERFACE_ASSOCIATION` and `default`: the record goes to the
\* extra bytes of the current interface, or of the configuration
OnOther ==
    /\ InLoop /\ DescType \notin {USB_DT_INTERFACE, USB_DT_ENDPOINT}
    /\ IF currentInterface # <<>>
         THEN /\ extraBuffer' = extraBuffer \o Slice(pos, pos + RecLength)
              /\ UNCHANGED cExtra
         ELSE /\ cExtra' = cExtra \o Slice(pos, pos + RecLength)
              /\ UNCHANGED extraBuffer
    /\ pos' = pos + RecLength
    /\ processed' = Append(processed, Dispatched)
    /\ UNCHANGED <<data, ppc, cHeader, interfaceMap, currentInterface, currentEndpoints,
                   cInterfaces, perr, stopped, notParseVars>>

NextParse ==
    \/ UnmarshalBegin
    \/ LoopExit
    \/ OnInterface
    \/ OnEndpoint
    \/ OnOther

SpecParse == InitParse /\ [][NextParse]_vars

\* Unmarshal has returned nil
Accepted == ppc = "returned" /\ perr = ErrNil

\* ========================================================================
\* IsValidDevicePath: the version with devicePathRegex and the version with
\* strings.Split and strconv.Atoi

MaxField == 4          \* characters of the bus or the address part of a path

notPathVars == <<asyncVars, opsVars, dataVars, parseVars, legacyVars, resetVars, retryVars>>

\* "/dev/bus/usb/"
DevBusUsb == <<"/", "d", "e", "v", "/", "b", "u", "s", "/", "u", "s", "b", "/">>

Digits == {"0", "1", "2", "3", "4", "5", "6", "7", "8", "9"}

\* c - '0'
DigitValue(c) ==
    CASE c = "0" -> 0 [] c = "1" -> 1 [] c = "2" -> 2 [] c = "3" -> 3 [] c = "4" -> 4
      [] c = "5" -> 5 [] c = "6" -> 6 [] c = "7" -> 7 [] c = "8" -> 8 [] c = "9" -> 9

\* the characters the bus and address parts of the inputs are made of
FieldChars == {"0", "2", "5", "6", "+", "x"}

\* every string of up to max of them
Fields(max) == UNION {[1..n -> FieldChars] : n \in 0..max}

\* a few parts, good and bad
SomeFields == {<<"0", "0", "2">>, <<"2", "5", "5">>, <<"0", "0", "0">>, <<"2", "5", "6">>,
               <<"2">>, <<>>}

\* the paths: a well-placed bus part and address part of which one is any
\* string of Fields, and the few parts with a wrong prefix, a missing
\* separator or something behind the address
Paths(max) ==
    {DevBusUsb \o b \o <<"/">> \o d : b \in Fields(max), d \in SomeFields}
    \cup {DevBusUsb \o b \o <<"/">> \o d : b \in SomeFields, d \in Fields(max)}
    \cup {pre \o b \o sep \o d \o suf :
             pre \in {DevBusUsb, SubSeq(DevBusUsb, 1, 9), <<"x">> \o DevBusUsb, <<>>},
             b \in SomeFields, sep \in {<<"/">>, <<>>}, d \in SomeFields,
             suf \in {<<>>, <<"/">>, <<"x">>, <<"\n">>}}

InitPath ==
    InitAsync /\ InitOps /\ InitData /\ ParserStart(<<>>) /\ InitLegacy /\ InitReset
    /\ RetryStart(1)
    /\ \E p \in Paths(MaxField) : PathStart(p)

RECURSIVE DecimalValue(_, _)
\* `for _, c := range s { n = n*10 + int(c-'0') }`, started with n
DecimalValue(s, n) ==
    IF s = <<>> THEN n ELSE DecimalValue(Tail(s), n * 10 + DigitValue(Head(s)))

AllDigits(s) == \A k \in 1..Len(s) : s[k] \in Digits

\* devicePathRegex.FindStringSubmatch(path): nil (<<>>), or the two groups of
\* ^/dev/bus/usb/(\d{3})/(\d{3})$
FindStringSubmatch(p) ==
    IF /\ Len(p) = Len(DevBusUsb) + 7
       /\ SubSeq(p, 1, Len(DevBusUsb)) = DevBusUsb
       /\ AllDigits(SubSeq(p, Len(DevBusUsb) + 1, Len(DevBusUsb) + 3))
       /\ p[Len(DevBusUsb) + 4] = "/"
       /\ AllDigits(SubSeq(p, Len(DevBusUsb) + 5, Len(DevBusUsb) + 7))
      THEN <<SubSeq(p, Len(DevBusUsb) + 1, Len(DevBusUsb) + 3),
             SubSeq(p, Len(DevBusUsb) + 5, Len(DevBusUsb) + 7)>>
      ELSE <<>>

\* `return bus >= 1 && bus <= 255 && addr >= 1 && addr <= 255`
InRange(n) == n >= 1 /\ n <= 255

\* IsValidDevicePath with devicePathRegex
ValidByRegexp(p) ==
    LET matches == FindStringSubmatch(p)
    IN IF matches = <<>> THEN FALSE
       ELSE InRange(DecimalValue(matches[1], 0)) /\ InRange(DecimalValue(matches[2], 0))

RECURSIVE Split(_, _)
\* strings.Split(s, "/"), with cur the part being collected
Split(s, cur) ==
    IF s = <<>> THEN <<cur>>
    ELSE IF Head(s) = "/" THEN <<cur>> \o Split(Tail(s), <<>>)
    ELSE Split(Tail(s), Append(cur, Head(s)))

\* strconv.Atoi(s) for a string short enough not to overflow: an optional
\* sign, then one or more decimal digits
Atoi(s) ==
    LET signed == s # <<>> /\ Head(s) \in {"+", "-"}
        body == IF signed THEN Tail(s) ELSE s
    IN IF body = <<>> \/ ~AllDigits(body) THEN [err |-> TRUE, n |-> 0]
       ELSE [err |-> FALSE,
             n |-> IF signed /\ Head(s) = "-" THEN 0 - DecimalValue(body, 0)
                   ELSE DecimalValue(body, 0)]

\* strings.HasPrefix(p, "/dev/bus/usb/")
HasPrefix(p) == Len(p) >= Len(DevBusUsb) /\ SubSeq(p, 1, Len(DevBusUsb)) = DevBusUsb

\* IsValidDevicePath with strings.Split and strconv.Atoi
ValidByAtoi(p) ==
    IF ~HasPrefix(p) THEN FALSE
    ELSE LET parts == Split(p, <<>>)
         IN IF Len(parts) # 6 THEN FALSE
            ELSE LET busNum == Atoi(parts[5])
                     devNum == Atoi(parts[6])
                 IN /\ ~busNum.err /\ InRange(busNum.n)
                    /\ ~devNum.err /\ InRange(devNum.n)

Answer(b) == IF b THEN "true" ELSE "false"

IsValidDevicePathRegexp ==
    /\ validRegexp = "none"
    /\ validRegexp' = Answer(ValidByRegexp(path))
    /\ UNCHANGED <<path, validAtoi, notPathVars>>

IsValidDevicePathAtoi ==
    /\ validAtoi = "none"
    /\ validAtoi' = Answer(ValidByAtoi(path))
    /\ UNCHANGED <<path, validRegexp, notPathVars>>

NextPath == IsValidDevicePathRegexp \/ IsValidDevicePathAtoi

SpecPath == InitPath /\ [][NextPath]_vars

\* ========================================================================
\* IsochronousTransfer, first version: every Submit starts `go t.reapURB()`,
\* and each reapURB goroutine calls REAPURB on the handle's descriptor

notLegacyVars == <<asyncVars, opsVars, dataVars, parseVars, pathVars, resetVars, retryVars>>

\* Submit: `if t.submitted { return error }`, the SUBMITURB ioctl accepted,
\* `t.submitted = true; go t.reapURB()`
LegacySubmit(t) ==
    /\ ~lSubmitted[t]
    /\ lSubmitted' = [lSubmitted EXCEPT ![t] = TRUE]
    /\ lUrb' = [lUrb EXCEPT ![t] = "queued"]
    /\ lPc' = [lPc EXCEPT ![t] = "reap"]
    /\ UNCHANGED <<lStatus, lCompleted, lGot, notLegacyVars>>

\* the kernel: the device has served t's URB
LegacyKernelComplete(t) ==
    /\ lUrb[t] = "queued"
    /\ lUrb' = [lUrb EXCEPT ![t] = "completed"]
    /\ UNCHANGED <<lSubmitted, lPc, lStatus, lCompleted, lGot, notLegacyVars>>

\* `reapedURB == t.urb`
OwnURB(t, q) == q = t

\* REAPURB in t's reapURB returns with errno 0: the kernel hands out one
\* completed URB of the descriptor, whichever transfer submitted it.
\* `if errno == 0 && reapedURB == t.urb { break }`; otherwise none of the three
\* tests fires and the loop calls REAPURB again
reapURBReturnsURB(t) ==
    /\ lPc[t] = "reap"
    /\ \E q \in Transfers :
          /\ lUrb[q] = "completed"
          /\ lUrb' = [lUrb EXCEPT ![q] = "reaped"]
          /\ lGot' = [lGot EXCEPT ![q] = t]
          /\ lPc' = [lPc EXCEPT ![t] = IF OwnURB(t, q) THEN "process" ELSE "reap"]
    /\ UNCHANGED <<lSubmitted, lStatus, lCompleted, notLegacyVars>>

\* REAPURB returns an errno: `if errno == syscall.EAGAIN { time.Sleep; continue }`,
\* `if errno != 0 { t.urb.Status = -int32(errno); break }`
reapURBReturnsErrno(t) ==
    /\ lPc[t] = "reap"
    /\ \E e \in {"EAGAIN", "EINTR"} :
          IF e = "EAGAIN"
            THEN /\ lPc' = [lPc EXCEPT ![t] = "sleep"]
                 /\ UNCHANGED lStatus
            ELSE /\ lPc' = [lPc EXCEPT ![t] = "process"]
                 /\ lStatus' = [lStatus EXCEPT ![t] = e]
    /\ UNCHANGED <<lSubmitted, lUrb, lCompleted, lGot, notLegacyVars>>

\* time.Sleep(1 * time.Millisecond) is over
reapURBWakes(t) ==
    /\ lPc[t] = "sleep"
    /\ lPc' = [lPc EXCEPT ![t] = "reap"]
    /\ UNCHANGED <<lSubmitted, lUrb, lStatus, lCompleted, lGot, notLegacyVars>>

\* behind the loop: the packet results are copied and `t.completed <- true`
\* is sent unless the channel is full
reapURBSignals(t) ==
    /\ lPc[t] = "process"
    /\ lCompleted' = [lCompleted EXCEPT ![t] = TRUE]
    /\ lPc' = [lPc EXCEPT ![t] = "done"]
    /\ UNCHANGED <<lSubmitted, lUrb, lStatus, lGot, notLegacyVars>>

\* Wait: `case <-t.completed: return nil`
LegacyWait(t) ==
    /\ lSubmitted[t] /\ lCompleted[t]
    /\ lCompleted' = [lCompleted EXCEPT ![t] = FALSE]
    /\ UNCHANGED <<lSubmitted, lUrb, lPc, lStatus, lGot, notLegacyVars>>

NextLegacy ==
    \/ \E t \in Transfers : LegacySubmit(t)
    \/ \E t \in Transfers : LegacyKernelComplete(t)
    \/ \E t \in Transfers : reapURBReturnsURB(t)
    \/ \E t \in Transfers : reapURBReturnsErrno(t)
    \/ \E t \in Transfers : reapURBWakes(t)
    \/ \E t \in Transfers : reapURBSignals(t)
    \/ \E t \in Transfers : LegacyWait(t)

SpecLegacy == Init /\ [][NextLegacy]_vars

\* ========================================================================
\* DeviceHandle.ResetDevice beside the asynchronous engine. The kernel keeps
\* the URBs of a descriptor with the open file behind it: REAPURB returns only
\* URBs submitted through the file it is called on, and when the last
\* reference to a file goes (the descriptor closed and no ioctl in progress on
\* it) the URBs still queued on it are killed and never reported.

notResetVars == <<opsVars, dataVars, parseVars, pathVars, legacyVars, retryVars>>

\* `h.mu.Lock()`
ResetLock(u) ==
    /\ Alive /\ upc[u] = "idle"
    /\ upc' = [upc EXCEPT ![u] = "r_lock"]
    /\ writers' = writers \cup {u}
    /\ UNCHANGED <<closed, fdOpen, readers, mapVars, transferVars, kernelVars, ut, ucall,
                   reaperVars, panicked, callVars, deliveryVars, lastOk, pendingAtClose,
                   timedOut, resetVars, notResetVars>>

\* where ResetDevice's swap of h.fd leaves a reaper: one blocked in REAPURB
\* stays blocked on the old file; one between its test of h.closed and the
\* ioctl reads h.fd while ResetDevice writes it
AfterSwap(pc) ==
    IF pc = "blocked" THEN "blocked_old"
    ELSE IF pc = "reap" THEN "reap_raced"
    ELSE pc

\* a reaper is inside REAPURB on the file whose descriptor is being closed
HoldsOldFile == \E r \in Reapers : rpc[r] = "blocked"

\* the body of ResetDevice under the write lock: ErrDeviceNotFound on a closed
\* handle, an error when the device cannot be opened again (it is unplugged),
\* else `h.fd = fd; syscall.Close(oldFd); h.claimedIfaces = make(...)`.
\* Nothing is done about h.reapMap.
ResetDevice(u) ==
    /\ Alive /\ upc[u] = "r_lock" /\ readers = {}
    /\ writers' = writers \ {u}
    /\ Return(u)
    /\ IF closed \/ ~connected
         THEN UNCHANGED <<kernel, rpc, resetVars>>
         ELSE /\ pendingAtReset' = pendingAtReset \cup Pending
              /\ kernel' = {}
              /\ orphans' = IF HoldsOldFile THEN orphans \cup kernel ELSE orphans
              /\ rpc' = [r \in Reapers |-> AfterSwap(rpc[r])]
    /\ UNCHANGED <<closed, fdOpen, readers, mapVars, transferVars, connected,
                   rerrno, rkey, rerr, rcb, rtodo, panicked,
                   callVars, deliveryVars, lastOk, pendingAtClose,
                   timedOut, notResetVars>>

\* the REAPURB a reaper was blocked in when the descriptor was swapped returns:
\* with a URB of the old file, or interrupted. The old file goes with it, and
\* the URBs left on it.
ReapOldFile(r) ==
    /\ Alive /\ rpc[r] = "blocked_old"
    /\ \/ \E c \in orphans, st \in {ErrNil, ErrURBStatus} :
             /\ rkey' = [rkey EXCEPT ![r] = callT[c]]
             /\ rerr' = [rerr EXCEPT ![r] = st]
             /\ rpc' = [rpc EXCEPT ![r] = "lookup"]
       \/ /\ rpc' = [rpc EXCEPT ![r] = "check"]
          /\ UNCHANGED <<rkey, rerr>>
    /\ orphans' = {}
    /\ UNCHANGED <<handleVars, mapVars, transferVars, kernelVars, userVars,
                   rerrno, rcb, rtodo, panicked,
                   callVars, deliveryVars, lastOk, pendingAtClose,
                   timedOut, pendingAtReset, notResetVars>>

\* REAPURB entered with the h.fd read in a race with ResetDevice: the new
\* descriptor, or the number of the old one, which is closed (EBADF)
ReapEnterRaced(r) ==
    /\ Alive /\ rpc[r] = "reap_raced"
    /\ \/ /\ rpc' = [rpc EXCEPT ![r] = IF fdOpen THEN "blocked" ELSE "errpath"]
          /\ rerrno' = [rerrno EXCEPT ![r] = IF fdOpen THEN @ ELSE "EBADF"]
       \/ /\ rpc' = [rpc EXCEPT ![r] = "errpath"]
          /\ rerrno' = [rerrno EXCEPT ![r] = "EBADF"]
    /\ UNCHANGED <<handleVars, mapVars, transferVars, kernelVars, userVars,
                   rkey, rerr, rcb, rtodo, panicked,
                   callVars, deliveryVars, lastOk, pendingAtClose,
                   timedOut, resetVars, notResetVars>>

\* one application goroutine that also resets the device
NextReset ==
    \/ NextOf({1})
    \/ ResetLock(1)
    \/ ResetDevice(1)
    \/ \E r \in Reapers : ReapOldFile(r)
    \/ \E r \in Reapers : ReapEnterRaced(r)

SpecReset == Init /\ [][NextReset]_vars

\* ========================================================================
\* InterruptTransferWithRetry as a loop over the results of h.BulkTransfer and
\* h.ClearHalt, with any maxRetries

MaxRetriesArg == 3     \* the largest maxRetries a call is made with

notRetryVars == <<asyncVars, opsVars, dataVars, parseVars, pathVars, legacyVars, resetVars>>

ErrIO == "ErrIO"

\* what BulkTransfer returns: nil, one of its own errors, or the raw errno
BulkResults == {ErrNil, ErrDeviceNotFound, ErrInvalidParameter, ErrTimeout, "EIO"}

InitRetry ==
    InitAsync /\ InitOps /\ InitData /\ ParserStart(<<>>) /\ PathStart(<<>>) /\ InitLegacy
    /\ InitReset
    /\ \E m \in -1..MaxRetriesArg : RetryStart(m)

\* `attempt <= maxRetries`
LoopTest(a, m) == a <= m

\* the test of `for attempt := 0; attempt <= maxRetries; attempt++`, and
\* `return 0, lastErr` behind the loop
RetryTest ==
    /\ rtPc = "test"
    /\ IF LoopTest(attempt, maxRetries)
         THEN rtPc' = "bulk" /\ UNCHANGED retErr
         ELSE rtPc' = "returned" /\ retErr' = lastErr
    /\ UNCHANGED <<maxRetries, attempt, lastErr, attempts, notRetryVars>>

\* `n, err := h.BulkTransfer(...)` and what the loop body does with err up to
\* the call of ClearHalt
RetryBulkTransfer ==
    /\ rtPc = "bulk"
    /\ \E err \in BulkResults :
          /\ attempts' = Append(attempts, err)
          /\ IF err = ErrNil
               THEN /\ rtPc' = "returned" /\ retErr' = ErrNil
                    /\ UNCHANGED <<lastErr, attempt>>
               ELSE /\ lastErr' = err
                    /\ IF err \in {ErrDeviceNotFound, ErrInvalidParameter}
                         THEN /\ rtPc' = "returned" /\ retErr' = err
                              /\ UNCHANGED attempt
                       ELSE IF err \in {ErrTimeout, ErrIO}
                         THEN /\ rtPc' = "halt"
                              /\ UNCHANGED <<retErr, attempt>>
                       ELSE /\ rtPc' = "test" /\ attempt' = attempt + 1
                            /\ UNCHANGED retErr
    /\ UNCHANGED <<maxRetries, notRetryVars>>

\* `if clearErr := h.ClearHalt(endpoint); clearErr != nil { break }`
RetryClearHalt ==
    /\ rtPc = "halt"
    /\ \E clearErr \in {ErrNil, "EIO"} :
          IF clearErr # ErrNil
            THEN /\ rtPc' = "returned" /\ retErr' = lastErr
                 /\ UNCHANGED attempt
            ELSE /\ rtPc' = "test" /\ attempt' = attempt + 1
                 /\ UNCHANGED retErr
    /\ UNCHANGED <<maxRetries, lastErr, attempts, notRetryVars>>

NextRetry == RetryTest \/ RetryBulkTransfer \/ RetryClearHalt

SpecRetry == InitRetry /\ [][NextRetry]_vars

\* ========================================================================
\* Properties

ReaperRunning(r) == rpc[r] \notin {"idle", "exited"}
RunningReapers == {r \in Reapers : ReaperRunning(r)}
Failed(c) == callState[c] \in {"already submitted", "closed", "ioctl failed"}
NoCallbackPanic == "reapLoop: no callback for reaped URB"

\* the handle's life is over: the process aborted, or the handle is closed, no
\* reaper is left and no library call is in progress
LifetimeOver ==
    \/ panicked # "no"
    \/ closed /\ RunningReapers = {} /\ \A u \in Users : upc[u] = "idle"

\* C1: when the handle's lifetime is over, the callback of every Submit call
\* that returned nil has been invoked exactly once.
C1_ExactlyOneCompletion ==
    LifetimeOver => \A c \in CallIds : callState[c] = "ok" => delivered[c] = 1

\* C2 as stated: after a Submit call has failed, its callback has not been
\* invoked and the pending-URB map has no entry under the key of its URB.
C2_FailedSubmitLeavesNoEntryForURB ==
    \A c \in CallIds : Failed(c) => delivered[c] = 0 /\ reapMap[callT[c]] = NoCall

\* C2 as amended: a failed Submit call has registered nothing and its callback
\* is never invoked; an entry under the key of its URB is the callback of
\* another Submit call on the same transfer, one that returned nil.
C2_FailedSubmitRegistersNothing ==
    \A c \in CallIds : Failed(c) =>
        /\ delivered[c] = 0
        /\ \A r \in Reapers : rcb[r] # c
        /\ \A t \in Transfers : reapMap[t] # c
        /\ reapMap[callT[c]] # NoCall => callState[reapMap[callT[c]]] = "ok"

\* a Submit call failed with "already submitted" while the earlier call's
\* callback is in the map under the same key
C2_Witness ==
    \E c \in CallIds :
        /\ callState[c] = "already submitted"
        /\ reapMap[callT[c]] \notin {NoCall, c}

\* C3: once Close has returned on a handle that had URBs pending, the
\* pending-URB map is empty, h.reaping is false and no reaper is running.
C3_CloseDrains ==
    (closed /\ pendingAtClose # {}) =>
        Keys = {} /\ ~reaping /\ RunningReapers = {}

\* C4: once Close has returned, every call that was submitted and not yet
\* completed when Close ran has had its callback invoked, and the error that
\* callback left in t.reapErr is the no-device error.
C4_PendingGetDeviceGone ==
    \A c \in pendingAtClose :
        /\ delivered[c] >= 1
        /\ reapErrCall[callT[c]] = c => reapErr[callT[c]] = ErrDeviceNotFound

\* C5: from the moment the kernel has accepted the URB of a Submit call, the
\* call's callback is in the pending-URB map under the URB's key.
C5_RegisteredBeforeSubmitIoctl ==
    \A u \in Users :
        upc[u] \in {"s_sub", "s_reap", "s_reg"} => reapMap[ut[u]] = ucall[u]

\* C6: the reaper never aborts the process for a reaped URB without a callback.
C6_NoReaperPanic == panicked # NoCallbackPanic

\* C7: a Wait that was called when call c was the latest successful Submit on
\* the transfer (and still is) returns the error written by c's callback.
C7_WaitReturnsOwnCompletion ==
    \A u \in Users :
        (upc[u] = "w_ret" /\ lastOk[ut[u]] = ucall[u]) =>
            delivered[ucall[u]] >= 1 /\ reapErrCall[ut[u]] = ucall[u]

\* C8: at most one reaper goroutine of the handle is running (has been started
\* and has not yet cleared h.reaping and released the map's mutex on its way out).
C8_AtMostOneReaper == Cardinality(RunningReapers) <= 1

\* a reaper has exited and a later Submit has started the next one
C8_Witness ==
    \E r, q \in Reapers : rpc[r] = "exited" /\ ReaperRunning(q) /\ ~closed

\* C9 as stated: a reaper that has terminated did so with the handle closed.
C9_ReaperRunsUntilClose ==
    \A r \in Reapers : rpc[r] = "exited" => closed

\* C9 as amended: a reaper terminates only with the handle closed or after its
\* blocking reap failed with an errno other than EINTR and EAGAIN.
C9_ReaperExitsOnCloseOrReapError ==
    \A r \in Reapers :
        rpc[r] = "exited" => closed \/ rerrno[r] \notin {"0", "EINTR", "EAGAIN"}

\* a reaper has terminated on ENODEV with the handle still open
C9_Witness ==
    \E r \in Reapers : rpc[r] = "exited" /\ ~closed /\ rerrno[r] = "ENODEV"

\* C10: a registration never replaces an entry that is still in the map.
C10_NoOverwrite ==
    [][\A t \in Transfers :
          (reapMap'[t] # reapMap[t] /\ reapMap'[t] # NoCall) => reapMap[t] = NoCall]_vars

\* ------------------------------------------------------------------------
\* Device.Open and the synchronous methods of DeviceHandle

\* the methods of a handle other than Close
HandleMethods ==
    {"SetConfiguration", "GetConfiguration", "ClaimInterface", "ReleaseInterface",
     "SetInterfaceAltSetting", "ClearHalt", "DetachKernelDriver", "AttachKernelDriver",
     "KernelDriverActive", "ControlTransfer", "BulkTransfer", "InterruptTransfer",
     "GetStringDescriptor", "newAsyncTransfer"}

CloseBody == {"c_rel", "c_close", "c_flag", "c_nil"}

UnclosedHandles == {h \in Handles : Created(h) /\ ~hClosed[h]}

\* C11: a method called on a handle after Close has returned on it returns the
\* no-device error and has issued no kernel call.
C11_ClosedHandleRefusesEverything ==
    (last.op \in HandleMethods /\ last.late) =>
        last.res = ErrDeviceNotFound /\ last.calls = {}

\* C12: a Close call that is not the first to get the handle's lock never
\* runs the body of Close (the releases, the close of the descriptor, the
\* writes of h.closed and d.handle); it returns nil and has issued no kernel
\* call, also when it was called before the first Close had returned.
C12_CloseIdempotent ==
    /\ \A g \in Goroutines : gpc[g] \in CloseBody => gcall[g].nth = 1
    /\ (last.op = "Close" /\ last.nth > 1) => last.res = "nil" /\ last.calls = {}

\* a second Close call, made while the first was still running, has returned
C12_Witness == last.op = "Close" /\ last.nth = 2 /\ ~last.late

\* C13: when Close has closed the descriptor of a handle, no interface is
\* recorded as claimed in h.claimedIfaces.
C13_ReleasedBeforeFdClosed ==
    \A h \in Handles : (Created(h) /\ ~hFdOpen[h]) => hClaimed[h] = {}

\* C14: at most one handle of the Device is un-closed at any time.
C14_AtMostOneOpenHandle == Cardinality(UnclosedHandles) <= 1

\* C15 as stated: SetInterfaceAltSetting on an interface that is not in
\* h.claimedIfaces returns the not-claimed error and issues no kernel call; a
\* SETINTERFACE ioctl is issued only for an interface in h.claimedIfaces.
C15_UnclaimedGetsNotClaimed ==
    last.op = "SetInterfaceAltSetting" =>
        /\ ~last.held => last.res = ErrNotClaimed /\ last.calls = {}
        /\ "SETINTERFACE" \in last.calls => last.held

\* C15 as amended: on a handle that is not closed, SetInterfaceAltSetting on
\* an interface that is not in h.claimedIfaces returns the not-claimed error;
\* on a closed handle it returns the no-device error; in both cases it issues
\* no kernel call, and a SETINTERFACE ioctl is issued only for an interface in
\* h.claimedIfaces.
C15_UnclaimedGetsNotClaimedUnlessClosed ==
    last.op = "SetInterfaceAltSetting" =>
        /\ ~last.held =>
              /\ last.calls = {}
              /\ last.res = IF last.late THEN ErrDeviceNotFound ELSE ErrNotClaimed
        /\ "SETINTERFACE" \in last.calls => last.held /\ ~last.late

\* SetInterfaceAltSetting was refused on an open handle for an interface that
\* is not claimed
C15_Witness ==
    /\ last.op = "SetInterfaceAltSetting" /\ ~last.held /\ ~last.late
    /\ last.res = ErrNotClaimed

\* C16: a ClaimInterface call whose claim ioctl failed with EBUSY returns
\* ErrDeviceBusy.
C16_BusyClaimReturnsErrDeviceBusy ==
    (last.op = "ClaimInterface" /\ "CLAIMINTERFACE" \in last.calls /\ last.errno = "EBUSY") =>
        last.res = ErrDeviceBusy

\* C17: no Close call is waiting for h.mu while a goroutine that is blocked in
\* the ioctl of a synchronous transfer holds it.
C17_CloseNeverWaitsForTransfer ==
    \A g, k \in Goroutines :
        ~ /\ gpc[g] = "x_ioctl" /\ g \in hReaders[gcall[g].h]
          /\ gpc[k] = "c_wait" /\ gcall[k].h = gcall[g].h

\* C18: a synchronous transfer whose (last) transfer ioctl failed with
\* ETIMEDOUT returns ErrTimeout.
C18_TimedOutReturnsErrTimeout ==
    (last.op \in {"ControlTransfer", "BulkTransfer", "InterruptTransfer"}
        /\ last.xerrno = "ETIMEDOUT") => last.res = ErrTimeout

\* ------------------------------------------------------------------------
\* Cancel and WaitWithTimeout

\* the callback of call c has run to its end and no later Submit on its
\* transfer has begun to rewrite the flags
Settled(c) ==
    /\ delivered[c] >= 1
    /\ \A r \in Reapers : rcb[r] # c
    /\ lastOk[callT[c]] = c
    /\ \A u \in Users : upc[u] \in {"s_lock", "s_ioctl", "s_sub", "s_reap", "s_reg"} => ut[u] # callT[c]

\* C19: a submission for which WaitWithTimeout returned ErrTimeout gets its
\* callback invoked at most once, and exactly once by the time the handle's
\* lifetime is over; once the callback has run, the transfer is not submitted
\* and reaped.
C19_TimedOutStillCompletesOnce ==
    \A c \in timedOut :
        /\ delivered[c] <= 1
        /\ LifetimeOver => delivered[c] = 1
        /\ Settled(c) => ~submitted[callT[c]] /\ reaped[callT[c]]

\* C20: a Cancel call on a submission whose URB the reaper has already taken
\* from the kernel returns nil, unless the handle is closed or the device gone.
C20_CancelNoErrorWhenReaped ==
    (last.op = "Cancel" /\ ~last.held) =>
        last.res \in {"nil", ErrDeviceNotFound} \/ last.errno = "ENODEV"

SuccessfulPackets == {i \in Packets : tPackets[i].Status = "0"}

\* C22: after a successful completion of an isochronous transfer its total
\* actual length is the sum of the actual lengths of exactly the packets
\* whose status is zero.
C22_TotalIsSumOfSuccessfulPackets ==
    (tKind = "IsochronousTransfer" /\ Completed /\ tReapErr = ErrNil) =>
        GetActualLength = SumActual(tPackets, SuccessfulPackets)

\* C23: after every completion of a bulk, interrupt or control transfer, ok
\* or with an error, the reported actual length is the actual_length the
\* kernel wrote into the URB of that submission.
C23_ActualLengthOfThisSubmission ==
    (tKind = "AsyncBulk" /\ Completed) => GetActualLength = handed.actual

\* C30: GetStatus called on a newly created asynchronous transfer that was
\* never submitted does not block and returns TransferCompleted.
C30_NewTransferReportsCompleted ==
    (tKind \in UrbAsyncKinds \cup {"ManagerAsync"} /\ handed.n = 0 /\ gsPc # "idle") =>
        gsPc = "TransferCompleted"

\* the offsets of a list of parsed entries increase along the list
OffsetsIncrease(list) ==
    \A j \in 1..(Len(list) - 1) : list[j].offset < list[j + 1].offset

\* C24: for every input the parser accepts, the alternate_setting values of
\* every interface's alt-setting list are strictly increasing.
C24_AltSettingsStrictlyIncreasing ==
    Accepted =>
        \A i \in 1..Len(cInterfaces) :
            LET alts == cInterfaces[i].AltSettings
            IN \A j \in 1..(Len(alts) - 1) :
                  alts[j].AlternateSetting < alts[j + 1].AlternateSetting

RECURSIVE ExtraBetween(_, _, _)
\* the bytes of the records after the first k dispatched ones that are neither
\* interface nor (inside an interface) endpoint descriptors and start at an
\* offset in lo..hi-1, in input order
ExtraBetween(k, lo, hi) ==
    IF k > Len(processed) THEN <<>>
    ELSE LET r == processed[k]
             extra == /\ r.descType # USB_DT_INTERFACE
                      /\ ~(r.descType = USB_DT_ENDPOINT /\ r.inInterface)
                      /\ lo <= r.offset /\ r.offset < hi
         IN (IF extra THEN Slice(r.offset, r.offset + r.length) ELSE <<>>)
            \o ExtraBetween(k + 1, lo, hi)

\* the offsets of the interface descriptors the parser dispatched on
InterfaceOffsets ==
    {processed[k].offset : k \in {n \in 1..Len(processed) :
                                     processed[n].descType = USB_DT_INTERFACE}}

\* where the block of the alt setting that starts at offset o ends
BlockEnd(o) ==
    LET later == {x \in InterfaceOffsets : x > o}
    IN IF later = {} THEN Len(data) ELSE CHOOSE x \in later : \A y \in later : x <= y

\* alt settings within each interface, endpoints within each alt setting and
\* the extra bytes are in input order
InnerOrderPreserved ==
    /\ \A i \in 1..Len(cInterfaces) :
          LET alts == cInterfaces[i].AltSettings
          IN /\ OffsetsIncrease(alts)
             /\ \A j \in 1..Len(alts) :
                   /\ OffsetsIncrease(alts[j].Endpoints)
                   /\ alts[j].Extra = ExtraBetween(1, alts[j].offset, BlockEnd(alts[j].offset))
    /\ cExtra = ExtraBetween(1, 0, BlockEnd(0))

\* the interfaces are in the order in which the input first names them
InterfaceOrderPreserved ==
    \A i \in 1..(Len(cInterfaces) - 1) :
        cInterfaces[i].AltSettings[1].offset < cInterfaces[i + 1].AltSettings[1].offset

\* C25: in the tree of an accepted input, interfaces, alt settings within an
\* interface, endpoints within an alt setting and extra bytes are in the
\* relative order of their descriptors in the input.
C25_InputOrderPreserved ==
    Accepted => InterfaceOrderPreserved /\ InnerOrderPreserved

\* the loop is at a record of length zero, of length less than 3, or longer
\* than the rest of the input
AtInconsistency ==
    /\ ppc = "loop" /\ pos < Len(data)
    /\ (At(pos) < 3 \/ pos + At(pos) > Len(data))

\* C26: at a zero-length record, a record longer than the remaining bytes or
\* a descriptor of length less than 3 the parser stops there and returns nil
\* with the tree built from the records before it.
C26_StopsAtInconsistency ==
    [][AtInconsistency =>
          /\ ppc' = "returned" /\ perr' = ErrNil
          /\ stopped'.at = pos
          /\ cInterfaces' = SortedInterfaces(Flushed)
          /\ cExtra' = cExtra]_vars

ShortInterface(r) == r.descType = USB_DT_INTERFACE /\ r.length < 9
ShortEndpoint(r) == r.descType = USB_DT_ENDPOINT /\ r.length < 7

\* C27 as stated: Unmarshal returns an error whenever the input is shorter
\* than 9 bytes or has, among the descriptors the parser walks over, an
\* interface descriptor shorter than 9 or an endpoint descriptor shorter
\* than 7.
C27_ShortDescriptorIsAnError ==
    ppc = "returned" =>
        ((\/ Len(data) < 9
          \/ \E k \in 1..Len(processed) :
                ShortInterface(processed[k]) \/ ShortEndpoint(processed[k]))
         => perr # ErrNil)

\* C27 amended: Unmarshal returns an error exactly when the input is shorter
\* than 9 bytes, or the parser comes to an interface descriptor shorter than
\* 9, or comes, inside an interface, to an endpoint descriptor shorter than
\* 7; a short endpoint descriptor before the first interface is no error.
C27_ShortDescriptorInPlaceIsAnError ==
    ppc = "returned" =>
        (perr # ErrNil <=>
            \/ Len(data) < 9
            \/ \E k \in 1..Len(processed) :
                  \/ ShortInterface(processed[k])
                  \/ ShortEndpoint(processed[k]) /\ processed[k].inInterface)

\* an endpoint descriptor of 5 bytes inside an interface was refused
C27_Witness ==
    /\ ppc = "returned" /\ perr = ErrEndpointTooShort
    /\ Len(processed) = 2 /\ processed[2].length = 5

\* C28: the parser never indexes outside the input, the companion look-ahead
\* included, and every turn of the loop consumes at least one byte, so that
\* it ends within Len(data) turns.
C28_TerminatesWithoutReadingOutside ==
    /\ ppc # "panic"
    /\ pos <= Len(data)
    /\ ppc = "loop" => pos >= 9 + Len(processed)

\* an input was accepted whose last descriptor is a companion that the
\* look-ahead of the endpoint before it consumed
C28_Witness ==
    /\ Accepted /\ stopped.at = Len(data) /\ currentInterface # <<>>
    /\ Len(currentInterface[1].Endpoints) = 1
    /\ currentInterface[1].Endpoints[1].SSCompanion # <<>>

\* the part is exactly three decimal digits with a value in 1..255
ThreeDigitsInRange(part) ==
    /\ Len(part) = 3 /\ AllDigits(part)
    /\ LET n == 100 * DigitValue(part[1]) + 10 * DigitValue(part[2]) + DigitValue(part[3])
       IN 1 <= n /\ n <= 255

\* p is exactly /dev/bus/usb/BBB/DDD
ExactDevicePath(p) ==
    LET n == Len(DevBusUsb)
    IN /\ Len(p) = n + 7
       /\ \A k \in 1..n : p[k] = DevBusUsb[k]
       /\ ThreeDigitsInRange(<<p[n + 1], p[n + 2], p[n + 3]>>)
       /\ p[n + 4] = "/"
       /\ ThreeDigitsInRange(<<p[n + 5], p[n + 6], p[n + 7]>>)

\* C29: IsValidDevicePath(p) is true if and only if p is exactly
\* /dev/bus/usb/BBB/DDD with BBB and DDD three decimal digits of value 1..255.
C29_ValidIffExactPath ==
    /\ validRegexp # "none" => validRegexp = Answer(ExactDevicePath(path))
    /\ validAtoi # "none" => validAtoi = Answer(ExactDevicePath(path))

\* ------------------------------------------------------------------------
\* C31: with several transfers in flight on one handle, every completion the
\* kernel hands out is taken by the reap call that works for the transfer
\* owning the URB; none is taken, and dropped, by another transfer's reaper
C31_CompletionGoesToOwner ==
    \A t \in Transfers : lUrb[t] = "reaped" => lGot[t] = t

\* ------------------------------------------------------------------------
\* C32: h.reaping is true exactly while a reaper goroutine of the handle is
\* running, and whenever the handle is open and the pending-URB map has an
\* entry, one is running.
C32_PendingHasReaper ==
    Alive =>
        /\ reaping <=> RunningReapers # {}
        /\ (~closed /\ Keys # {}) => reaping

\* an entry is pending on the open handle and the reaper blocked in REAPURB is
\* not the first one the handle has had
C32_Witness ==
    /\ Alive /\ ~closed /\ Keys # {}
    /\ \E r, q \in Reapers : rpc[r] = "blocked" /\ rpc[q] = "exited"

\* ------------------------------------------------------------------------
\* the goroutines of the first part, and for each the lock it is blocked on
Threads == ({"user"} \X Users) \cup ({"reaper"} \X Reapers)

UserAt(x, pcs) == x[1] = "user" /\ upc[x[2]] \in pcs
ReaperAt(x, pcs) == x[1] = "reaper" /\ rpc[x[2]] \in pcs

\* the transfer whose t.reapCond.L the goroutine is about to lock
WantsCond(x) == IF x[1] = "user" THEN ut[x[2]] ELSE callT[rcb[x[2]]]

\* blocked in h.mu.RLock() behind a writer, in h.mu.Lock() behind readers, in
\* h.reapMutex.Lock(), or in t.reapCond.L.Lock()
WaitsRLock(x) ==
    (UserAt(x, {"s_lock", "cn_ioctl", "wt_ioctl"}) \/ ReaperAt(x, {"check"})) /\ writers # {}
WaitsLock(x) == UserAt(x, {"c_lock"}) /\ readers # {}
WaitsReapMutex(x) ==
    (UserAt(x, {"s_reg"}) \/ ReaperAt(x, {"closedpath", "errpath", "lookup"})) /\ reapMutex # 0
WaitsCond(x) == (UserAt(x, {"w_wait"}) \/ ReaperAt(x, {"cb_lock"})) /\ condL[WantsCond(x)]

\* the goroutines that have to move before x gets its lock
BlockedBy(x) ==
    IF WaitsRLock(x) THEN {"user"} \X writers
    ELSE IF WaitsLock(x) THEN {"user"} \X readers
    ELSE IF WaitsReapMutex(x) THEN {<<"reaper", reapMutex>>}
    ELSE {y \in Threads : ReaperAt(y, {"cb_sub", "cb_reaped"})
                              /\ callT[rcb[y[2]]] = WantsCond(x)}

WaitsForLock(x) == WaitsRLock(x) \/ WaitsLock(x) \/ WaitsReapMutex(x) \/ WaitsCond(x)

CallbackStepOn(t) ==
    \E r \in Reapers :
        /\ rpc[r] \in {"cb_lock", "cb_sub", "cb_reaped"}
        /\ rpc'[r] # rpc[r]
        /\ callT[rcb[r]] = t

\* C34: t.submitted, t.reaped and t.reapErr are written only by a goroutine
\* that holds t's own mutex.
C34_FlagsWrittenUnderMutex ==
    [][\A t \in Transfers :
          (submitted'[t] # submitted[t] \/ reaped'[t] # reaped[t] \/ reapErr'[t] # reapErr[t])
              => CallbackStepOn(t)]_vars

\* ------------------------------------------------------------------------
\* nothing is left for the library to do by itself: no call is in progress, no
\* URB is in flight or waiting to be reaped, and every reaper has exited or is
\* blocked in REAPURB
Quiescent ==
    /\ \A u \in Users : upc[u] = "idle"
    /\ kernel = {} /\ orphans = {}
    /\ \A r \in Reapers : rpc[r] \in {"idle", "exited", "blocked", "blocked_old"}

\* C35: the URBs that were pending when a ResetDevice succeeded get their
\* completion callback with the handle open; the library does not come to
\* rest, the handle open, with the callback of one of them not invoked.
C35_PendingAtResetGetCallback ==
    (Alive /\ ~closed /\ Quiescent) => \A c \in pendingAtReset : delivered[c] >= 1

\* ------------------------------------------------------------------------
\* C36: the claimed-interface set of an open handle is the set of interfaces
\* the kernel holds claimed for the handle's descriptor.
C36_ClaimedSetMatchesKernel ==
    \A h \in Handles :
        (Created(h) /\ ~hClosed[h]) => hClaimed[h] = {i \in Ifaces : kOwner[i] = h}

\* ------------------------------------------------------------------------
\* C37: when KernelDriverActive(i) has returned on an open handle, interface i
\* is in the handle's claimed set if and only if it was when the call began.
C37_KernelDriverActiveKeepsClaims ==
    (last.op = "KernelDriverActive" /\ ~last.late) =>
        (last.i \in hClaimed[last.h] <=> last.held)

\* ------------------------------------------------------------------------
\* C38: InterruptTransferWithRetry returns a nil error only if one of its
\* transfer attempts returned nil, whatever maxRetries is.
C38_NilOnlyAfterSuccess ==
    retErr = ErrNil => \E k \in DOMAIN attempts : attempts[k] = ErrNil

\* ------------------------------------------------------------------------
\* C39: every interface number that an interface descriptor of an accepted
\* input carries is the number of an entry of c.Interfaces.
C39_EveryInterfaceNumberListed ==
    Accepted =>
        \A o \in InterfaceOffsets :
            \E i \in 1..Len(cInterfaces) :
                cInterfaces[i].AltSettings[1].InterfaceNumber = At(o + 2)

\* ------------------------------------------------------------------------
NilMapPanic == "assignment to entry in nil map"

\* C40: registerURBCompletion is never executed once the reaper's
\* closed-handle path has set h.reapMap to nil: no Submit is between its test
\* of h.closed and its return then, and the process never aborts on an
\* insertion into a nil map.
C40_NoInsertIntoNilMap ==
    /\ panicked # NilMapPanic
    /\ reapMapNil => \A u \in Users : upc[u] \notin {"s_ioctl", "s_sub", "s_reap", "s_reg"}

\* the reaper of an earlier Submit has set the map to nil on the closed handle
\* and a Submit call has been turned away with ErrDeviceNotFound
C40_Witness ==
    /\ Alive /\ reapMapNil
    /\ \E c, d \in CallIds :
          callState[c] = "ok" /\ delivered[c] = 1 /\ callState[d] = "closed"

====
